---- MODULE Spec2Model ----
(***************************************************************************)
(* rails-pr-digest: the incremental document store (FileManager), the      *)
(* entry formatter, the structured-data extractor and the orchestrator     *)
(* (main), modelled from the TypeScript sources.                           *)
(*                                                                         *)
(* Text is modelled as a sequence of tokens.  A token is a TLA+ string:    *)
(* either one character ("0".."9", "-", ".", " ", "\n", ...) or a fixed    *)
(* literal that the program emits or searches as a unit ("## [#",          *)
(* "---", ...).  The regular expressions of the source are translated     *)
(* to scans over these token sequences.                                    *)
(***************************************************************************)
EXTENDS Integers, Sequences, FiniteSets, TLC

VARIABLES
  now,        \* the system clock: days elapsed since StartDate
  env,        \* the set of environment variables that are set
  dirExists,  \* whether docsDir (docs/monthly) exists
  files,      \* docsDir: file name (sequence of characters) -> content
  manifest,   \* indexFile (monthly-index.json): <<>> when absent, <<entries>> when written
  homePage,   \* docs/index.md: <<>> when absent, <<content>> when present
  dataStore,  \* prDataFile (pr-data.json): <<>> when absent, <<PRDataStore>> when written
  feedOut,    \* the directory of outputFile, and feed.xml in it
  run,        \* the orchestrator's local state (one record per process)
  call        \* the last FileManager operation: its arguments and what it did

vars == <<now, env, dirExists, files, manifest, homePage, dataStore, feedOut, run, call>>

----------------------------------------------------------------------------
(* Bounds of the model *)

MaxTime == 2          \* the clock advances at most this many days
MaxPR == 2            \* pull requests merged into the repository (one per day)
MaxBlocks == 3        \* entry blocks in the partition files of the store specification
MaxSummaryLen == 3    \* longest summary text (in tokens) of the round-trip inputs
MaxExtra == 2         \* records beyond the retention cap in the retention inputs

----------------------------------------------------------------------------
(* Tokens and strings *)

NL == "\n"
DigitChars == <<"0", "1", "2", "3", "4", "5", "6", "7", "8", "9">>
DigitSet == {DigitChars[i] : i \in 1..10}

\* The value of a decimal digit character.
DigitValue(c) == (CHOOSE i \in 1..10 : DigitChars[i] = c) - 1

\* `${n}` / String(n) of a non-negative integer: its decimal digits.
RECURSIVE NumToString(_)
NumToString(n) ==
  IF n < 10 THEN <<DigitChars[n + 1]>>
  ELSE NumToString(n \div 10) \o <<DigitChars[(n % 10) + 1]>>

NaN == 0 - 1

\* Number.parseInt(s, 10) on a string without sign or leading blanks: the value
\* of the longest prefix of digits, NaN when the string does not start with one.
RECURSIVE ParseDigits(_, _, _)
ParseDigits(s, i, acc) ==
  IF i > Len(s) \/ s[i] \notin DigitSet THEN acc
  ELSE ParseDigits(s, i + 1, acc * 10 + DigitValue(s[i]))

ParseInt(s) ==
  IF Len(s) = 0 \/ s[1] \notin DigitSet THEN NaN ELSE ParseDigits(s, 1, 0)

\* String.prototype.padStart(2, "0")
PadStart2(s) == IF Len(s) < 2 THEN <<"0">> \o s ELSE s

\* White space in the sense of \s and of String.prototype.trim.
IsSpace(c) == c \in {" ", NL}

RECURSIVE TrimStart(_)
TrimStart(s) == IF Len(s) > 0 /\ IsSpace(s[1]) THEN TrimStart(Tail(s)) ELSE s

RECURSIVE TrimEnd(_)
TrimEnd(s) ==
  IF Len(s) > 0 /\ IsSpace(s[Len(s)]) THEN TrimEnd(SubSeq(s, 1, Len(s) - 1)) ELSE s

Trim(s) == TrimEnd(TrimStart(s))

\* s.substring(from) with a 1-based index
From(s, i) == SubSeq(s, i, Len(s))

\* Whether the literal p occurs in s at index i.
MatchAt(s, i, p) == i >= 1 /\ i + Len(p) - 1 <= Len(s) /\ SubSeq(s, i, i + Len(p) - 1) = p

\* s.indexOf(p, from) with 1-based indices; 0 stands for -1.
IndexOf(s, p, from) ==
  LET hits == {i \in (IF from < 1 THEN 1 ELSE from)..Len(s) : MatchAt(s, i, p)}
  IN IF hits = {} THEN 0 ELSE CHOOSE i \in hits : \A j \in hits : i <= j

\* The code unit of a character of a file name, for Array.prototype.sort's
\* default (UTF-16 code unit) order.
CharCode(c) ==
  CASE c = "-" -> 45
    [] c = "." -> 46
    [] c \in DigitSet -> 48 + DigitValue(c)
    [] c = "_" -> 95
    [] c = "d" -> 100
    [] c = "e" -> 101
    [] c = "i" -> 105
    [] c = "m" -> 109
    [] c = "n" -> 110
    [] c = "t" -> 116
    [] c = "v" -> 118
    [] c = "x" -> 120

\* a < b in the order of the default sort of strings.
RECURSIVE StrLess(_, _)
StrLess(a, b) ==
  IF Len(b) = 0 THEN FALSE
  ELSE IF Len(a) = 0 THEN TRUE
  ELSE IF a[1] = b[1] THEN StrLess(Tail(a), Tail(b))
  ELSE CharCode(a[1]) < CharCode(b[1])

\* Array.prototype.sort() of a list of strings (insertion sort; the result of
\* sorting pairwise distinct names does not depend on the algorithm).
RECURSIVE InsertSorted(_, _)
InsertSorted(sorted, x) ==
  IF Len(sorted) = 0 THEN <<x>>
  ELSE IF StrLess(x, sorted[1]) THEN <<x>> \o sorted
  ELSE <<sorted[1]>> \o InsertSorted(Tail(sorted), x)

RECURSIVE SortStrings(_)
SortStrings(list) ==
  IF Len(list) = 0 THEN <<>>
  ELSE InsertSorted(SortStrings(SubSeq(list, 1, Len(list) - 1)), list[Len(list)])

\* Array.prototype.reverse()
Reverse(list) == [i \in 1..Len(list) |-> list[Len(list) + 1 - i]]

\* Array.prototype.join(sep) of a list of strings
RECURSIVE Join(_, _)
Join(list, sep) ==
  IF Len(list) = 0 THEN <<>>
  ELSE IF Len(list) = 1 THEN list[1]
  ELSE list[1] \o sep \o Join(Tail(list), sep)

----------------------------------------------------------------------------
(* The clock and the calendar (new Date()) *)

StartDate == [year |-> 2025, month |-> 12, day |-> 30]

IsLeapYear(y) == (y % 4 = 0 /\ y % 100 # 0) \/ y % 400 = 0

DaysInMonth(y, m) ==
  IF m = 2 THEN (IF IsLeapYear(y) THEN 29 ELSE 28)
  ELSE IF m \in {4, 6, 9, 11} THEN 30 ELSE 31

NextDay(d) ==
  IF d.day < DaysInMonth(d.year, d.month) THEN [d EXCEPT !.day = d.day + 1]
  ELSE IF d.month < 12 THEN [d EXCEPT !.month = d.month + 1, !.day = 1]
  ELSE [year |-> d.year + 1, month |-> 1, day |-> 1]

\* new Date() when the clock shows t
RECURSIVE DateAt(_)
DateAt(t) == IF t = 0 THEN StartDate ELSE NextDay(DateAt(t - 1))

\* Days from the civil date 0000-03-01, for comparing and subtracting dates
\* (Date.prototype.getTime at day granularity).
DayNumber(d) ==
  LET y == IF d.month <= 2 THEN d.year - 1 ELSE d.year
      m == IF d.month <= 2 THEN d.month + 9 ELSE d.month - 3
  IN 365 * y + (y \div 4) - (y \div 100) + (y \div 400) + ((153 * m + 2) \div 5) + d.day - 1

----------------------------------------------------------------------------
(* formatter.ts *)

getYearMonth(date) == [year |-> date.year, month |-> date.month]

\* Variant: the month is written without String.prototype.padStart.
getMonthlyFilenameUnpadded(date) ==
  LET ym == getYearMonth(date)
  IN NumToString(ym.year) \o <<"-">> \o NumToString(ym.month) \o <<".", "m", "d">>

getMonthlyFilename(date) ==
  LET ym == getYearMonth(date)
      monthStr == PadStart2(NumToString(ym.month))
  IN NumToString(ym.year) \o <<"-">> \o monthStr \o <<".", "m", "d">>

\* new Date(merged_at ?? "").toLocaleDateString("ja-JP"): year/month/day
\* without padding, "Invalid Date" for a null merged_at.
toLocaleDateString(merged_at) ==
  IF merged_at = <<>> THEN <<"Invalid", " ", "Date">>
  ELSE NumToString(merged_at[1].year) \o <<"/">> \o NumToString(merged_at[1].month)
       \o <<"/">> \o NumToString(merged_at[1].day)

HeadingOpen == "## [#"
UrlPrefix == "https://github.com/rails/rails/pull/"
\* The metadata labels: "**<merge date>**: " and "**<author>**" (Japanese words in
\* the source, written here in ASCII).
MergedLabel == "**merged-on**: "
AuthorLabel == "**author**"
Separator == "---"

formatPREntry(pr, summary) ==
  LET date == toLocaleDateString(pr.merged_at)
      login == IF pr.user = <<>> THEN <<"unknown">> ELSE pr.user[1].login
      userUrl == IF pr.user = <<>> THEN <<"#">> ELSE pr.user[1].html_url
  IN <<NL, HeadingOpen>> \o NumToString(pr.number) \o <<"]", "(">> \o pr.html_url
     \o <<")", " ">> \o pr.title \o <<NL, NL>>
     \o <<MergedLabel>> \o date \o <<" | ", AuthorLabel, ": [@">> \o login \o <<"]", "(">>
     \o userUrl \o <<")", NL, NL>>
     \o summary \o <<NL, NL, Separator, NL>>

----------------------------------------------------------------------------
(* Scanning helpers for the regular expressions *)

\* The end of the run of characters of `set' that starts at index i
\* (i - 1 when s[i] is not in the set): a greedy character class.
RECURSIVE RunEnd(_, _, _)
RunEnd(s, i, set) ==
  IF i <= Len(s) /\ s[i] \in set THEN RunEnd(s, i + 1, set) ELSE i - 1

\* The index of the first line terminator at or after i, Len(s) + 1 when none:
\* where "." stops and where "$" matches under the m flag.
RECURSIVE LineEnd(_, _)
LineEnd(s, i) == IF i > Len(s) \/ s[i] = NL THEN i ELSE LineEnd(s, i + 1)

\* The least element of a non-empty set of indices.
Least(S) == CHOOSE i \in S : \A j \in S : i <= j

WordChars == DigitSet \cup {"-", "_", "d", "e", "i", "m", "n", "t", "v", "x"}

\* /## \[#(\d+)\]/ at index i: the index of the closing bracket, 0 when no match.
HeadingAt(s, i) ==
  IF i > Len(s) \/ s[i] # HeadingOpen THEN 0
  ELSE LET e == RunEnd(s, i + 1, DigitSet)
       IN IF e > i /\ e + 1 <= Len(s) /\ s[e + 1] = "]" THEN e + 1 ELSE 0

----------------------------------------------------------------------------
(* file-manager.ts: the partition store *)

\* The numbers captured by content.matchAll(/## \[#(\d+)\]/g).
\* A variant of the scan without the g flag: only the first heading counts.
HeadingNumbersFirstOnly(content) ==
  LET hits == {j \in 1..Len(content) : HeadingAt(content, j) # 0}
  IN IF hits = {} THEN {}
     ELSE {ParseInt(SubSeq(content, Least(hits) + 1, HeadingAt(content, Least(hits)) - 1))}

HeadingNumbers(content) ==
  {ParseInt(SubSeq(content, i + 1, HeadingAt(content, i) - 1)) :
     i \in {j \in 1..Len(content) : HeadingAt(content, j) # 0}}

getExistingPRNumbers(fileSet, date) ==
  LET filename == getMonthlyFilename(date)
  IN IF filename \notin DOMAIN fileSet THEN {}
     ELSE HeadingNumbers(fileSet[filename])

\* new Date().toISOString().split("T")[0]
ISODate(date) ==
  NumToString(date.year) \o <<"-">> \o PadStart2(NumToString(date.month))
  \o <<"-">> \o PadStart2(NumToString(date.day))

\* The words for "year" and "month" that follow the numbers in titles
\* (Japanese characters in the source, written here in ASCII).
YearWord == "-nen "
MonthWord == "-gatsu"
LastUpdatedKey == "lastUpdated: "

\* content.match(/^---\n([\s\S]*?)\n---\n/): the index of the "\n" that opens
\* the closing delimiter, 0 when there is no match.
FrontmatterClose(content) ==
  IF ~MatchAt(content, 1, <<Separator, NL>>) THEN 0
  ELSE LET hits == {j \in 3..Len(content) : MatchAt(content, j, <<NL, Separator, NL>>)}
       IN IF hits = {} THEN 0 ELSE Least(hits)

\* A variant of the replacement that leaves the frontmatter as it was.
ReplaceLastUpdatedKeep(fm, date) == fm

\* existingFrontmatter.replace(/lastUpdated: .*/, "lastUpdated: " + today):
\* the first key and the rest of its line.
ReplaceLastUpdated(fm, date) ==
  LET k == IndexOf(fm, <<LastUpdatedKey>>, 1)
  IN IF k = 0 THEN fm
     ELSE SubSeq(fm, 1, k - 1) \o <<LastUpdatedKey>> \o ISODate(date)
          \o From(fm, LineEnd(fm, k + 1))

\* rest.match(/^\s*(# .*?\n\n> .*?\n\n)/): <<index of the first token of the
\* group, index of its last token>>, <<0, 0>> when there is no match.
HeaderMatch(rest) ==
  LET h == RunEnd(rest, 1, {" ", NL}) + 1
      e1 == LineEnd(rest, h + 1)
      e2 == LineEnd(rest, e1 + 3)
  IN IF h <= Len(rest) /\ rest[h] = "# "
        /\ MatchAt(rest, e1, <<NL, NL, "> ">>)
        /\ MatchAt(rest, e2, <<NL, NL>>)
     THEN <<h, e2 + 1>> ELSE <<0, 0>>

NewFrontmatter(date) ==
  LET ym == getYearMonth(date)
      yearMonth == NumToString(ym.year) \o <<YearWord>> \o NumToString(ym.month) \o <<MonthWord>>
  IN <<Separator, NL, "title: ">> \o yearMonth
     \o <<NL, "description: ", "Ruby on Rails PR Digest - ">> \o yearMonth \o <<" summary">>
     \o <<NL, LastUpdatedKey>> \o ISODate(date)
     \o <<NL, Separator, NL, NL>>

NewHeader(date) ==
  LET ym == getYearMonth(date)
  IN <<"# ", "Ruby on Rails PR Digest - ">> \o NumToString(ym.year) \o <<YearWord>>
     \o NumToString(ym.month) \o <<MonthWord>>
     \o <<NL, NL, "> ", "blurb", NL, NL>>

\* A variant of the merge that gives a page without frontmatter a fresh
\* frontmatter and a fresh header.
MergedContentAlwaysPreamble(old, entries, date) ==
  IF old # <<>> /\ FrontmatterClose(old[1]) # 0
  THEN <<Separator, NL>>
       \o ReplaceLastUpdated(SubSeq(old[1], 3, FrontmatterClose(old[1]) - 1), date)
       \o <<NL, Separator, NL, NL>> \o Join(entries, <<NL>>) \o <<NL>>
       \o From(old[1], FrontmatterClose(old[1]) + 3)
  ELSE NewFrontmatter(date) \o NewHeader(date) \o Join(entries, <<NL>>) \o <<NL>>
       \o (IF old = <<>> THEN <<>> ELSE old[1])

\* A variant of the merge that writes a fresh page and forgets the old one.
MergedContentFresh(old, entries, date) ==
  NewFrontmatter(date) \o NewHeader(date) \o Join(entries, <<NL>>) \o <<NL>>

\* A variant of the merge that appends the new entries to the old content,
\* as the first version of the collector did.
MergedContentAppend(old, entries, date) ==
  (IF old = <<>> THEN NewFrontmatter(date) \o NewHeader(date) ELSE old[1])
  \o Join(entries, <<NL>>) \o <<NL>>

\* The content updateMonthlyFile writes for a non-empty list of entries;
\* old is <<>> when the file does not exist and <<content>> when it does.
MergedContent(old, entries, date) ==
  LET content == old[1]
      close == FrontmatterClose(content)
      rest == From(content, close + 3)
      hm == HeaderMatch(rest)
      frontmatter ==
        IF old = <<>> THEN NewFrontmatter(date)
        ELSE IF close = 0 THEN <<>>
        ELSE <<Separator, NL>> \o ReplaceLastUpdated(SubSeq(content, 3, close - 1), date)
             \o <<NL, Separator, NL, NL>>
      header ==
        IF old = <<>> THEN NewHeader(date)
        ELSE IF close = 0 \/ hm[1] = 0 THEN <<>>
        ELSE SubSeq(rest, hm[1], hm[2])
      existingContent ==
        IF old = <<>> THEN <<>>
        ELSE IF close = 0 THEN content
        ELSE IF hm[1] = 0 THEN rest
        ELSE From(rest, hm[2] + 1)
  IN frontmatter \o header \o Join(entries, <<NL>>) \o <<NL>> \o existingContent

\* A variant of updateMonthlyFile that leaves out the entries whose number the
\* file already holds.
updateMonthlyFileDedup(fs, entries, date) ==
  LET filename == getMonthlyFilename(date)
      old == IF filename \in DOMAIN fs.files THEN <<fs.files[filename]>> ELSE <<>>
      isNew(entry) == old = <<>> \/ HeadingNumbers(entry) \cap HeadingNumbers(old[1]) = {}
      fresh == SelectSeq(entries, isNew)
  IN IF Len(fresh) = 0 THEN fs
     ELSE [dirExists |-> TRUE,
           files |-> (filename :> MergedContent(old, fresh, date)) @@ fs.files]

\* A variant of updateMonthlyFile without the early return for an empty list.
updateMonthlyFileNoGuard(fs, entries, date) ==
  LET filename == getMonthlyFilename(date)
      old == IF filename \in DOMAIN fs.files THEN <<fs.files[filename]>> ELSE <<>>
  IN [dirExists |-> TRUE,
      files |-> (filename :> MergedContentFresh(old, entries, date)) @@ fs.files]

\* A variant of updateMonthlyFile that writes a fresh page with the entries
\* whatever the file holds.
updateMonthlyFileOverwrite(fs, entries, date) ==
  IF Len(entries) = 0 THEN fs
  ELSE [dirExists |-> TRUE,
        files |-> (getMonthlyFilename(date) :> MergedContent(<<>>, entries, date)) @@ fs.files]

\* updateMonthlyFile(entries) on the file system fs = [dirExists, files].
updateMonthlyFile(fs, entries, date) ==
  IF Len(entries) = 0 THEN fs
  ELSE LET filename == getMonthlyFilename(date)
           old == IF filename \in DOMAIN fs.files THEN <<fs.files[filename]>> ELSE <<>>
       IN [dirExists |-> TRUE,
           files |-> (filename :> MergedContent(old, entries, date)) @@ fs.files]

----------------------------------------------------------------------------
(* file-manager.ts: the index builder *)

MdSuffix == <<".", "m", "d">>

\* f.endsWith(".md")
EndsWithMd(f) == Len(f) >= 3 /\ SubSeq(f, Len(f) - 2, Len(f)) = MdSuffix

\* /(\d{4})-(\d{2})\.md/ at index i of a file name
ShapeAt(f, i) ==
  /\ i + 9 <= Len(f)
  /\ \A k \in i..(i + 3) : f[k] \in DigitSet
  /\ f[i + 4] = "-"
  /\ \A k \in (i + 5)..(i + 6) : f[k] \in DigitSet
  /\ SubSeq(f, i + 7, i + 9) = MdSuffix

\* filename.match(/(\d{4})-(\d{2})\.md/): the index of the leftmost match, 0 when none.
ShapeMatch(f) ==
  LET hits == {i \in 1..Len(f) : ShapeAt(f, i)}
  IN IF hits = {} THEN 0 ELSE Least(hits)

\* The MonthlyIndexEntry of a file name that matches at index i.
IndexEntry(filename, i) ==
  LET year == SubSeq(filename, i, i + 3)
      month == ParseInt(SubSeq(filename, i + 5, i + 6))
  IN [filename |-> filename,
      year |-> year,
      month |-> month,
      title |-> year \o <<YearWord>> \o NumToString(month) \o <<MonthWord>>,
      url |-> <<"monthly/">> \o filename]

\* files.map(...).filter(item => item !== null)
RECURSIVE IndexData(_)
IndexData(names) ==
  IF Len(names) = 0 THEN <<>>
  ELSE LET i == ShapeMatch(names[1])
       IN (IF i = 0 THEN <<>> ELSE <<IndexEntry(names[1], i)>>) \o IndexData(Tail(names))

\* A variant of the listing without the sort: the order of readdirSync, reversed.
MdFilesUnsorted(listing) == Reverse(SelectSeq(listing, EndsWithMd))

\* readdirSync(docsDir).filter(f => f.endsWith(".md")).sort().reverse()
MdFilesNewestFirst(listing) == Reverse(SortStrings(SelectSeq(listing, EndsWithMd)))

HomeLabel == "text: latest"
LinkKey == "link: "

\* /\/monthly\/[\w-]+\.md/ at index i: the index of the last token, 0 when no match.
MonthlyLinkAt(s, i) ==
  IF ~MatchAt(s, i, <<"/", "monthly/">>) THEN 0
  ELSE LET e == RunEnd(s, i + 2, WordChars)
       IN IF e >= i + 2 /\ MatchAt(s, e + 1, MdSuffix) THEN e + 3 ELSE 0

\* The leftmost match of /(text: <label>[\s\S]*?link: )\/monthly\/[\w-]+\.md/:
\* <<index of the first token of the link target, index of its last token>>,
\* <<0, 0>> when the pattern does not occur.
HomeLinkMatch(s) ==
  LET labels == {p \in 1..Len(s) : s[p] = HomeLabel}
      targets(p) == {q \in (p + 1)..Len(s) : s[q] = LinkKey /\ MonthlyLinkAt(s, q + 1) # 0}
      starts == {p \in labels : targets(p) # {}}
  IN IF starts = {} THEN <<0, 0>>
     ELSE LET q == Least(targets(Least(starts)))
          IN <<q + 1, MonthlyLinkAt(s, q + 1)>>

\* A variant of updateHomePage that ends the page after the new link target.
updateHomePageTruncating(page, latestMonth) ==
  IF page = <<>> THEN page
  ELSE LET content == page[1]
           m == HomeLinkMatch(content)
           updatedContent ==
             IF m[1] = 0 THEN content
             ELSE SubSeq(content, 1, m[1] - 1) \o <<"/">> \o latestMonth.url
       IN IF content # updatedContent THEN <<updatedContent>> ELSE page

\* updateHomePage(latestMonth): the home page afterwards (<<>> when absent).
updateHomePage(page, latestMonth) ==
  IF page = <<>> THEN page
  ELSE LET content == page[1]
           m == HomeLinkMatch(content)
           updatedContent ==
             IF m[1] = 0 THEN content
             ELSE SubSeq(content, 1, m[1] - 1) \o <<"/">> \o latestMonth.url
                  \o From(content, m[2] + 1)
       IN IF content # updatedContent THEN <<updatedContent>> ELSE page

\* A variant of generateMonthlyIndex that hands the last entry of the manifest,
\* the oldest month, to updateHomePage.
generateMonthlyIndexOldest(st, listing) ==
  IF ~st.dirExists THEN st
  ELSE LET indexData == IndexData(MdFilesNewestFirst(listing))
       IN [st EXCEPT !.manifest = <<indexData>>,
                     !.homePage = IF Len(indexData) > 0
                                  THEN updateHomePage(st.homePage, indexData[Len(indexData)])
                                  ELSE st.homePage]

\* generateMonthlyIndex() on st = [dirExists, files, manifest, homePage], where
\* listing is what readdirSync returns (the names of docsDir in some order).
generateMonthlyIndex(st, listing) ==
  IF ~st.dirExists THEN st
  ELSE LET indexData == IndexData(MdFilesNewestFirst(listing))
       IN [st EXCEPT !.manifest = <<indexData>>,
                     !.homePage = IF Len(indexData) > 0
                                  THEN updateHomePage(st.homePage, indexData[1])
                                  ELSE st.homePage]

\* The files generateMonthlyIndex writes, in the order of its writeFileSync
\* calls: the manifest (line 162), then the home page when updateHomePage finds
\* it changed (line 191).
IndexFileName == "monthly-index.json"
HomePageName == "index.md"

generateMonthlyIndexWrites(st, listing) ==
  IF ~st.dirExists THEN <<>>
  ELSE LET indexData == IndexData(MdFilesNewestFirst(listing))
       IN <<IndexFileName>>
          \o (IF Len(indexData) > 0 /\ updateHomePage(st.homePage, indexData[1]) # st.homePage
              THEN <<HomePageName>> ELSE <<>>)

\* The orders in which readdirSync may list a set of names.
Listings(names) ==
  {l \in [1..Cardinality(names) -> names] : \A i, j \in DOMAIN l : i # j => l[i] # l[j]}

----------------------------------------------------------------------------
(* file-manager.ts: the structured-data extractor *)

RetentionCap == 50

\* The pattern /## \[#(\d+)\]\((https:\/\/github\.com\/rails\/rails\/pull\/\d+)\) (.+?)$/gm
\* at index i: the index of the last token of the match (the end of the line),
\* 0 when there is no match.
EntryHeadingAt(s, i) ==
  LET b == HeadingAt(s, i)
      u == RunEnd(s, b + 3, DigitSet)
      e == LineEnd(s, u + 3)
  IN IF b # 0 /\ MatchAt(s, b + 1, <<"(", UrlPrefix>>) /\ u >= b + 3
        /\ MatchAt(s, u + 1, <<")", " ">>) /\ e > u + 3
     THEN e - 1 ELSE 0

\* Array.from(content.matchAll(prPattern)): the start indices of the successive
\* matches from the index from on, in ascending order. Each search resumes
\* after the previous match, which ends at the end of its line: a place where
\* the pattern matches is skipped when an earlier match covers it.
EntryMatches(s, from) ==
  LET hits == {i \in from..Len(s) : EntryHeadingAt(s, i) # 0}
      starts == {i \in hits : ~\E h \in hits : h < i /\ i <= EntryHeadingAt(s, h)}
      isStart(i) == i \in starts
  IN SelectSeq([i \in 1..Len(s) |-> i], isStart)

\* Date.UTC(year, month - 1, day) for parsed parts: the civil date, with a month
\* or a day that is out of range carried over.
RECURSIVE DateUTC(_, _, _)
DateUTC(year, month, day) ==
  IF month > 12 THEN DateUTC(year + 1, month - 12, day)
  ELSE IF month < 1 THEN DateUTC(year - 1, month + 12, day)
  ELSE IF day > DaysInMonth(year, month) THEN DateUTC(year, month + 1, day - DaysInMonth(year, month))
  ELSE IF day < 1 THEN
    (IF month = 1 THEN DateUTC(year - 1, 12, day + 31)
     ELSE DateUTC(year, month - 1, day + DaysInMonth(year, month - 1)))
  ELSE [year |-> (IF year < 100 THEN 1900 + year ELSE year), month |-> month, day |-> day]

\* dateStr.split(/[/\s:]/): the parts between the delimiters.
RECURSIVE SplitDate(_)
SplitDate(s) ==
  LET hits == {i \in 1..Len(s) : s[i] \in {"/", " ", NL, ":"}}
  IN IF hits = {} THEN <<s>>
     ELSE <<SubSeq(s, 1, Least(hits) - 1)>> \o SplitDate(From(s, Least(hits) + 1))

\* convertJapaneseDateToISO(dateStr): the instant of the ISO string, as a civil
\* date and whether it carries a time of day (only the fallback to the current
\* time does).  A part that is missing or is no number makes Date.UTC NaN,
\* toISOString throws and the catch returns the current time.
convertJapaneseDateToISO(dateStr, today) ==
  LET parts == SplitDate(dateStr)
      part(k) == IF k <= Len(parts) THEN ParseInt(parts[k]) ELSE NaN
  IN IF part(1) = NaN \/ part(2) = NaN \/ part(3) = NaN
     THEN [date |-> today, timeOfDay |-> 1]
     ELSE [date |-> DateUTC(part(1), part(2), part(3)), timeOfDay |-> 0]

\* new Date(mergedAt).getTime(), in half days.
getTime(mergedAt) == 2 * DayNumber(mergedAt.date) + mergedAt.timeOfDay

\* prContent.match(/\*\*<merged>\*\*: (.+?) \| \*\*<author>\*\*: \[@(.+?)\]\((.+?)\)/):
\* the indices <<date first, date last, login first, login last, url first, url last>>
\* of the leftmost match, <<>> when there is none.
MetadataAt(s, i) ==
  LET lineEnd == LineEnd(s, i)
      bars == {j \in (i + 2)..(lineEnd - 1) : MatchAt(s, j, <<" | ", AuthorLabel, ": [@">>)}
      after(j) == {k \in (j + 4)..(lineEnd - 1) : MatchAt(s, k, <<"]", "(">>)
                                                   /\ \E c \in (k + 3)..(lineEnd - 1) : s[c] = ")"}
      good == {j \in bars : after(j) # {}}
  IN IF i > Len(s) \/ s[i] # MergedLabel \/ good = {} THEN <<>>
     ELSE LET j == Least(good)
              k == Least(after(j))
              c == Least({x \in (k + 3)..(lineEnd - 1) : s[x] = ")"})
          IN <<i + 1, j - 1, j + 3, k - 1, k + 2, c - 1>>

MetadataMatch(s) ==
  LET hits == {i \in 1..Len(s) : MetadataAt(s, i) # <<>>}
  IN IF hits = {} THEN <<>> ELSE MetadataAt(s, Least(hits))

\* A variant of the iteration that takes the rest of the block as the summary
\* when the separator is missing.
ExtractEntryToEnd(content, start, next, today) ==
  LET b == HeadingAt(content, start)
      u == RunEnd(content, b + 3, DigitSet)
      prContent == SubSeq(content, start, next - 1)
      md == MetadataMatch(prContent)
      authorAt == IndexOf(prContent, <<AuthorLabel>>, 1)
      summaryStart == IndexOf(prContent, <<NL, NL>>, authorAt)
      summaryEnd == IndexOf(prContent, <<NL, Separator>>, summaryStart)
  IN IF md = <<>> THEN <<>>
     ELSE IF summaryStart = 0 THEN <<>>
     ELSE <<[number |-> ParseInt(SubSeq(content, start + 1, b - 1)),
             title |-> Trim(SubSeq(content, u + 3, EntryHeadingAt(content, start))),
             url |-> SubSeq(content, b + 2, u),
             mergedAt |-> convertJapaneseDateToISO(Trim(SubSeq(prContent, md[1], md[2])), today),
             author |-> Trim(SubSeq(prContent, md[3], md[4])),
             authorUrl |-> Trim(SubSeq(prContent, md[5], md[6])),
             summary |-> Trim(SubSeq(prContent, summaryStart,
                                     IF summaryEnd = 0 THEN Len(prContent)
                                     ELSE summaryEnd - 1))]>>

\* One iteration of the loop of extractPRsFromMarkdown: the PRData of the match
\* that starts at `start', as a list of zero or one element.
ExtractEntry(content, start, next, today) ==
  LET b == HeadingAt(content, start)
      u == RunEnd(content, b + 3, DigitSet)
      prNumber == ParseInt(SubSeq(content, start + 1, b - 1))
      prUrl == SubSeq(content, b + 2, u)
      prTitle == Trim(SubSeq(content, u + 3, EntryHeadingAt(content, start)))
      prContent == SubSeq(content, start, next - 1)
      md == MetadataMatch(prContent)
      authorAt == IndexOf(prContent, <<AuthorLabel>>, 1)
      summaryStart == IndexOf(prContent, <<NL, NL>>, authorAt)
      summaryEnd == IndexOf(prContent, <<NL, Separator>>, summaryStart)
  IN IF md = <<>> THEN <<>>
     ELSE IF summaryStart = 0 \/ summaryEnd = 0 THEN <<>>
     ELSE <<[number |-> prNumber,
             title |-> prTitle,
             url |-> prUrl,
             mergedAt |-> convertJapaneseDateToISO(Trim(SubSeq(prContent, md[1], md[2])), today),
             author |-> Trim(SubSeq(prContent, md[3], md[4])),
             authorUrl |-> Trim(SubSeq(prContent, md[5], md[6])),
             summary |-> Trim(SubSeq(prContent, summaryStart, summaryEnd - 1))]>>

\* The loop "for (let i = 0; i < matches.length; i++)" from the index i on: the
\* records pushed, in the order of the matches; a match without metadata or
\* without summary pushes none.
ExtractFrom(content, matches, i, today) ==
  LET found == [k \in 1..Len(matches) |->
                  ExtractEntry(content, matches[k],
                               IF k < Len(matches) THEN matches[k + 1] ELSE Len(content) + 1,
                               today)]
      pushed(k) == k >= i /\ found[k] # <<>>
      kept == SelectSeq([k \in 1..Len(matches) |-> k], pushed)
  IN [j \in 1..Len(kept) |-> found[kept[j]][1]]

extractPRsFromMarkdown(content, today) ==
  ExtractFrom(content, EntryMatches(content, 1), 1, today)

\* A variant of the sort with the comparison reversed (dateA - dateB): oldest
\* first.
RECURSIVE SortByDateOldestFirst(_)
SortByDateOldestFirst(list) ==
  IF Len(list) = 0 THEN <<>>
  ELSE LET oldest == CHOOSE t \in {getTime(list[i].mergedAt) : i \in 1..Len(list)} :
                       \A i \in 1..Len(list) : getTime(list[i].mergedAt) >= t
           isOldest(x) == getTime(x.mergedAt) = oldest
           isNewer(x) == getTime(x.mergedAt) # oldest
       IN SelectSeq(list, isOldest) \o SortByDateOldestFirst(SelectSeq(list, isNewer))

\* allPRs.sort((a, b) => dateB - dateA): a stable sort, newest first: the
\* records with the greatest time in their order in the list, then the others
\* sorted.
RECURSIVE SortByDate(_)
SortByDate(list) ==
  IF Len(list) = 0 THEN <<>>
  ELSE LET newest == CHOOSE t \in {getTime(list[i].mergedAt) : i \in 1..Len(list)} :
                       \A i \in 1..Len(list) : getTime(list[i].mergedAt) <= t
           isNewest(x) == getTime(x.mergedAt) = newest
           isOlder(x) == getTime(x.mergedAt) # newest
       IN SelectSeq(list, isNewest) \o SortByDate(SelectSeq(list, isOlder))

\* .slice(0, 50)
Slice(list, n) == SubSeq(list, 1, IF Len(list) < n THEN Len(list) ELSE n)

\* The loop over the files: allPRs.push(...prs) for each file, newest name first.
RECURSIVE AllPRs(_, _, _)
AllPRs(fileSet, names, today) ==
  IF Len(names) = 0 THEN <<>>
  ELSE extractPRsFromMarkdown(fileSet[names[1]], today) \o AllPRs(fileSet, Tail(names), today)

NotIndexMd(f) == EndsWithMd(f) /\ f # <<"i", "n", "d", "e", "x", ".", "m", "d">>

\* A variant of the extractor that counts the records of all files in
\* totalCount and keeps them in the order of the files.
extractAndSavePRsFromMonthlyFilesUnsorted(st, store, listing, today) ==
  IF ~st.dirExists THEN store
  ELSE LET names == Reverse(SortStrings(SelectSeq(listing, NotIndexMd)))
           allPRs == AllPRs(st.files, names, today)
       IN <<[lastUpdated |-> today,
             totalCount |-> Len(allPRs),
             items |-> Slice(allPRs, RetentionCap)]>>

\* extractAndSavePRsFromMonthlyFiles(): the pr-data.json afterwards.
extractAndSavePRsFromMonthlyFiles(st, store, listing, today) ==
  IF ~st.dirExists THEN store
  ELSE LET names == Reverse(SortStrings(SelectSeq(listing, NotIndexMd)))
           sortedPRs == Slice(SortByDate(AllPRs(st.files, names, today)), RetentionCap)
       IN <<[lastUpdated |-> today,
             totalCount |-> Len(sortedPRs),
             items |-> sortedPRs]>>

----------------------------------------------------------------------------
(* The collaborators: the repository (github-client.ts) and the summarizer *)

\* The pull requests of the repository: the k-th one is merged on day k - 1.
PRNumberOf(k) == 8 + k

PullRequest(k) ==
  [number |-> PRNumberOf(k),
   title |-> <<"Fix", " ", "bug", " ">> \o NumToString(k),
   html_url |-> <<UrlPrefix>> \o NumToString(PRNumberOf(k)),
   merged_at |-> <<DateAt((k - 1) % (MaxTime + 1))>>,
   user |-> IF k % 2 = 0 THEN <<>>
            ELSE <<[login |-> <<"dev">>, html_url |-> <<"https://github.com/dev">>]>>]

\* The items of the search "is:pr is:merged merged:>=<yesterday>" on day t.
MergedSince(t) ==
  {k \in 1..MaxPR : LET d == DayNumber(PullRequest(k).merged_at[1])
                    IN d >= DayNumber(DateAt(t)) - 1 /\ d <= DayNumber(DateAt(t))}

\* fetchRecentPRs(): the items in the order of the response, [] when the
\* request fails.
FetchResults(t) ==
  {[i \in DOMAIN l |-> [number |-> PullRequest(l[i]).number, title |-> PullRequest(l[i]).title]] :
     l \in Listings(MergedSince(t))} \cup {<<>>}

\* getPRDetails(prNumber): null (<<>>) when a request fails.
getPRDetails(prNumber, ok) ==
  IF ok THEN <<[pr |-> PullRequest(CHOOSE k \in 1..MaxPR : PRNumberOf(k) = prNumber)]>>
  ELSE <<>>

SummaryErrorPrefix == "SummaryError: "
NoSummaryText == "NoSummary"

\* What the chat completion request does: it answers with a text, answers
\* without content, or fails with a message.
Completions ==
  {[kind |-> "content", text |-> <<"Summary">>],
   [kind |-> "empty", text |-> <<>>],
   [kind |-> "error", text |-> <<"API Error">>]}

\* OpenAIClient.summarizePR: the content, the fixed text when there is none,
\* the error placeholder when the request throws.
summarizePR(completion) ==
  IF completion.kind = "content" THEN completion.text
  ELSE IF completion.kind = "empty" THEN <<NoSummaryText>>
  ELSE <<SummaryErrorPrefix>> \o completion.text

----------------------------------------------------------------------------
(* main.ts: the orchestrator *)

\* The output of the feed generator: whether the directory of outputFile exists,
\* and feed.xml, <<>> when absent, <<document>> when written.
NoFeed == [dirExists |-> FALSE, feed |-> <<>>]

NoCall == [op |-> "none", args |-> <<>>, entries |-> <<>>, result |-> {}, writes |-> <<>>,
           error |-> <<>>, date |-> StartDate,
           before |-> [dirExists |-> FALSE, files |-> <<>>, manifest |-> <<>>,
                       homePage |-> <<>>, dataStore |-> <<>>, feedOut |-> NoFeed]]

Snapshot ==
  [dirExists |-> dirExists, files |-> files, manifest |-> manifest,
   homePage |-> homePage, dataStore |-> dataStore, feedOut |-> feedOut]

IdleRun ==
  [pc |-> "idle",        \* where the process is
   prs |-> <<>>,         \* the fetched records
   existingPRs |-> {},   \* what getExistingPRNumbers returned
   newPRs |-> <<>>,      \* the records that passed the filter
   i |-> 0,              \* the index of the loop over newPRs
   prDetails |-> <<>>,   \* the details of the record being processed
   entries |-> <<>>,     \* the formatted entries
   detailed |-> {},      \* history: the numbers whose details were fetched
   failed |-> {},        \* history: the numbers whose summarization failed
   steps |-> <<>>,       \* history: the FileManager and RSSGenerator steps, in order
   target |-> <<>>,      \* history: the name of the file updateMonthlyFile wrote
   filtered |-> <<>>,    \* history: the name of the file getExistingPRNumbers looked for
   detailCalls |-> <<>>, \* history: the numbers getPRDetails was called with, in order
   summaryCalls |-> <<>>,\* history: the numbers summarizePR was called for, in order
   before |-> NoCall.before]  \* history: the files when main started

\* The landing page docs/index.md as it is in the repository.
InitialHomePage ==
  <<HomeLabel, NL, LinkKey, "/", "monthly/", "2", "0", "2", "5", "-", "1", "1", ".", "m", "d", NL,
    "text: archive", NL, LinkKey, "/", "monthly/", NL>>

\* A variant of the loop body that skips a record whose summarization failed.
ProcessPRSkipFailed(entries, prDetails, completion) ==
  IF prDetails = <<>> \/ completion.kind = "error" THEN entries
  ELSE Append(entries, formatPREntry(prDetails[1].pr, summarizePR(completion)))

\* One step of the body of the loop "for (const pr of newPRs)": the entries after
\* the details of a record and its summary have arrived.
ProcessPR(entries, prDetails, completion) ==
  IF prDetails = <<>> THEN entries
  ELSE Append(entries, formatPREntry(prDetails[1].pr, summarizePR(completion)))

\* The end of main (lines 82-88), which runs without suspension after the
\* loop: updateMonthlyFile(entries), then generateMonthlyIndex().
Finish(r) ==
  \E listing \in Listings(DOMAIN updateMonthlyFile([dirExists |-> dirExists, files |-> files],
                                                   r.entries, DateAt(now)).files) :
    LET merged == updateMonthlyFile([dirExists |-> dirExists, files |-> files],
                                    r.entries, DateAt(now))
        indexed == generateMonthlyIndex([dirExists |-> merged.dirExists, files |-> merged.files,
                                         manifest |-> manifest, homePage |-> homePage], listing)
    IN /\ dirExists' = indexed.dirExists
       /\ files' = indexed.files
       /\ manifest' = indexed.manifest
       /\ homePage' = indexed.homePage
       /\ run' = [r EXCEPT !.pc = "done",
                           !.steps = <<"updateMonthlyFile", "generateMonthlyIndex">>,
                           !.target = IF Len(r.entries) = 0 THEN <<>>
                                      ELSE getMonthlyFilename(DateAt(now))]
       /\ UNCHANGED <<now, env, dataStore, call, feedOut>>

\* A variant of the loop that ends at the first record whose details are
\* missing: main returns without storing anything.
NextRecordAbortOnFailure(r) ==
  IF r.prDetails = <<>>
  THEN /\ run' = [r EXCEPT !.pc = "done"]
       /\ UNCHANGED <<now, env, dirExists, files, manifest, homePage, dataStore, call, feedOut>>
  ELSE IF r.i < Len(r.newPRs)
  THEN /\ run' = [r EXCEPT !.pc = "details", !.i = r.i + 1, !.prDetails = <<>>,
                           !.detailCalls = Append(@, r.newPRs[r.i + 1].number)]
       /\ UNCHANGED <<now, env, dirExists, files, manifest, homePage, dataStore, call, feedOut>>
  ELSE Finish(r)

\* The loop moves to its next record, or main finishes after the last one.
NextRecord(r) ==
  IF r.i < Len(r.newPRs)
  THEN /\ run' = [r EXCEPT !.pc = "details", !.i = r.i + 1, !.prDetails = <<>>,
                           !.detailCalls = Append(@, r.newPRs[r.i + 1].number)]
       /\ UNCHANGED <<now, env, dirExists, files, manifest, homePage, dataStore, call, feedOut>>
  ELSE Finish(r)

\* A variant of the start of main without the validation of the environment.
StartWithoutValidation ==
  /\ run.pc \in {"idle", "done"}
  /\ run' = [IdleRun EXCEPT !.pc = "fetch", !.before = Snapshot]
  /\ UNCHANGED <<now, env, dirExists, files, manifest, homePage, dataStore, call, feedOut>>

\* main starts: the environment is validated and the records are requested.
Start ==
  /\ run.pc \in {"idle", "done"}
  /\ run' = [IdleRun EXCEPT !.pc = IF "GITHUB_TOKEN" \notin env \/ "OPENAI_API_KEY" \notin env
                                   THEN "exit1" ELSE "fetch",
                             !.before = Snapshot]
  /\ UNCHANGED <<now, env, dirExists, files, manifest, homePage, dataStore, call, feedOut>>

\* A variant of main without the duplicate filter: every fetched record is
\* processed.
FetchReturnUnfiltered ==
  /\ run.pc = "fetch"
  /\ \E prs \in FetchResults(now) :
       LET existingPRs == getExistingPRNumbers(files, DateAt(now))
       IN run' = IF Len(prs) = 0 THEN [run EXCEPT !.pc = "done"]
                 ELSE [run EXCEPT !.pc = "details", !.prs = prs, !.existingPRs = existingPRs,
                                  !.filtered = getMonthlyFilename(DateAt(now)),
                                  !.newPRs = prs, !.i = 1,
                                  !.detailCalls = <<prs[1].number>>]
  /\ UNCHANGED <<now, env, dirExists, files, manifest, homePage, dataStore, call, feedOut>>

\* fetchRecentPRs resolves; main filters the records against the current
\* month's file and requests the details of the first new one.
FetchReturn ==
  /\ run.pc = "fetch"
  /\ \E prs \in FetchResults(now) :
       LET existingPRs == getExistingPRNumbers(files, DateAt(now))
           isNew(pr) == pr.number \notin existingPRs
           newPRs == SelectSeq(prs, isNew)
       IN run' = IF Len(prs) = 0 THEN [run EXCEPT !.pc = "done"]
                 ELSE IF Len(newPRs) = 0
                 THEN [run EXCEPT !.pc = "done", !.prs = prs, !.existingPRs = existingPRs,
                                  !.filtered = getMonthlyFilename(DateAt(now))]
                 ELSE [run EXCEPT !.pc = "details", !.prs = prs, !.existingPRs = existingPRs,
                                  !.filtered = getMonthlyFilename(DateAt(now)),
                                  !.newPRs = newPRs, !.i = 1,
                                  !.detailCalls = <<newPRs[1].number>>]
  /\ UNCHANGED <<now, env, dirExists, files, manifest, homePage, dataStore, call, feedOut>>

\* getPRDetails resolves: with null the record is skipped, otherwise its
\* summary is requested.
DetailsReturn ==
  /\ run.pc = "details"
  /\ \E ok \in BOOLEAN :
       LET prDetails == getPRDetails(run.newPRs[run.i].number, ok)
       IN IF prDetails = <<>> THEN NextRecord(run)
          ELSE /\ run' = [run EXCEPT !.pc = "summary", !.prDetails = prDetails,
                                     !.detailed = @ \cup {prDetails[1].pr.number},
                                     !.summaryCalls = Append(@, prDetails[1].pr.number)]
               /\ UNCHANGED <<now, env, dirExists, files, manifest, homePage, dataStore, call, feedOut>>

\* summarizePR resolves; the entry is formatted and collected, and main waits
\* one second.
SummaryReturn ==
  /\ run.pc = "summary"
  /\ \E completion \in Completions :
       run' = [run EXCEPT !.pc = "sleep",
                          !.entries = ProcessPR(run.entries, run.prDetails, completion),
                          !.failed = IF completion.kind = "error"
                                     THEN @ \cup {run.prDetails[1].pr.number} ELSE @]
  /\ UNCHANGED <<now, env, dirExists, files, manifest, homePage, dataStore, call, feedOut>>

\* The one-second wait ends.
SleepReturn ==
  /\ run.pc = "sleep"
  /\ NextRecord(run)

\* A day passes.
Tick ==
  /\ now < MaxTime
  /\ now' = now + 1
  /\ UNCHANGED <<env, dirExists, files, manifest, homePage, dataStore, run, call, feedOut>>

Init ==
  /\ now = 0
  /\ env \in SUBSET {"GITHUB_TOKEN", "OPENAI_API_KEY"}
  /\ dirExists \in BOOLEAN
  /\ files = <<>>
  /\ manifest = <<>>
  /\ homePage = <<InitialHomePage>>
  /\ dataStore = <<>>
  /\ feedOut = NoFeed
  /\ run = IdleRun
  /\ call = NoCall

Next ==
  \/ Start
  \/ FetchReturn
  \/ DetailsReturn
  \/ SummaryReturn
  \/ SleepReturn
  \/ Tick

Spec == Init /\ [][Next]_vars

----------------------------------------------------------------------------
(* The partition store on its own: getExistingPRNumbers and updateMonthlyFile *)
(* called directly, as the tests of FileManager do, on the kinds of file     *)
(* that the repository's history can leave in docs/monthly.                  *)

\* The entry of the k-th pull request as main builds it; the summarizer
\* answers for the odd ones and fails for the even ones.
EntryOf(k) ==
  formatPREntry(PullRequest(k),
                summarizePR(IF k % 2 = 1 THEN [kind |-> "content", text |-> <<"Summary">>]
                            ELSE [kind |-> "error", text |-> <<"API Error">>]))

\* The argument of updateMonthlyFile: up to two entries, of the first two
\* pull requests.
EntryLists ==
  {<<>>} \cup {<<EntryOf(k)>> : k \in {1, 2}}
         \cup {<<EntryOf(j), EntryOf(k)>> : j, k \in {1, 2}}

\* An entry stored by an earlier run.
StoredEntry == EntryOf(3)

\* The contents a partition file may have before the store is called, as in
\* the fixtures of the tests of FileManager: a fresh page; a page with an
\* entry, as updateMonthlyFile writes it; a page with frontmatter and a title
\* but no blurb, so that the header is not recognised; a page without
\* frontmatter; a page with frontmatter whose blurb is its last line.
InitialContents(date) ==
  {NewFrontmatter(date) \o NewHeader(date),
   NewFrontmatter(date) \o NewHeader(date) \o StoredEntry \o <<NL>>,
   NewFrontmatter(date) \o <<"# ", "Ruby on Rails PR Digest", NL>> \o StoredEntry,
   StoredEntry,
   NewFrontmatter(date) \o <<"# ", "Ruby on Rails PR Digest", NL, NL, "> ", "No PRs yet", NL>>}

\* The number of entry headings in a text.
HeadingCount(content) == Cardinality({i \in 1..Len(content) : HeadingAt(content, i) # 0})

RECURSIVE SumOver(_, _)
SumOver(S, f) ==
  IF S = {} THEN 0
  ELSE LET x == CHOOSE y \in S : TRUE IN f[x] + SumOver(S \ {x}, f)

TotalHeadings(fileSet) ==
  SumOver(DOMAIN fileSet, [f \in DOMAIN fileSet |-> HeadingCount(fileSet[f])])

StoreInit ==
  /\ now = 0
  /\ env = {}
  /\ \/ dirExists \in BOOLEAN /\ files = <<>>
     \/ /\ dirExists = TRUE
        /\ \E c \in InitialContents(DateAt(0)) : files = (getMonthlyFilename(DateAt(0)) :> c)
  /\ manifest = <<>>
  /\ homePage = <<>>
  /\ dataStore = <<>>
  /\ feedOut = NoFeed
  /\ run = IdleRun
  /\ call = NoCall

\* fileManager.getExistingPRNumbers()
StoreGetExisting ==
  /\ call' = [op |-> "getExistingPRNumbers", args |-> <<>>, entries |-> <<>>, writes |-> <<>>,
              error |-> <<>>,
              result |-> getExistingPRNumbers(files, DateAt(now)),
              date |-> DateAt(now), before |-> Snapshot]
  /\ UNCHANGED <<now, env, dirExists, files, manifest, homePage, dataStore, run, feedOut>>

\* fileManager.updateMonthlyFile(entries)
StoreUpdate ==
  \E entries \in EntryLists :
    LET after == updateMonthlyFile([dirExists |-> dirExists, files |-> files],
                                   entries, DateAt(now))
    IN /\ TotalHeadings(files) + Len(entries) <= MaxBlocks
       /\ dirExists' = after.dirExists
       /\ files' = after.files
       /\ call' = [op |-> "updateMonthlyFile", args |-> <<>>, entries |-> entries, result |-> {},
                   writes |-> <<>>, error |-> <<>>,
                   date |-> DateAt(now), before |-> Snapshot]
       /\ UNCHANGED <<now, env, manifest, homePage, dataStore, run, feedOut>>

StoreNext ==
  \/ StoreGetExisting
  \/ StoreUpdate
  \/ Tick

SpecStore == StoreInit /\ [][StoreNext]_vars

----------------------------------------------------------------------------
(* The formatter and the extractor on their own: an entry is written as the  *)
(* only block of a partition file and the extractor reads the directory.     *)

\* The texts a summary is made of: a word, a blank, a line break and a
\* horizontal rule.
SummaryTokens == {"a", " ", NL, Separator}

RECURSIVE TextsUpTo(_, _)
TextsUpTo(tokens, n) ==
  IF n = 0 THEN {<<>>}
  ELSE LET shorter == TextsUpTo(tokens, n - 1)
       IN shorter \cup {Append(t, c) : t \in shorter, c \in tokens}

Summaries == TextsUpTo(SummaryTokens, MaxSummaryLen)

RoundTripInit ==
  /\ now = 0
  /\ env = {}
  /\ dirExists = TRUE
  /\ files = <<>>
  /\ manifest = <<>>
  /\ homePage = <<>>
  /\ dataStore = <<>>
  /\ feedOut = NoFeed
  /\ run = IdleRun
  /\ call = NoCall

\* formatPREntry(pr, summary) becomes the content of the month's file.
RoundTripFormat ==
  /\ call.op = "none"
  /\ \E k \in 1..MaxPR, summary \in Summaries :
       /\ files' = (getMonthlyFilename(DateAt(now)) :> formatPREntry(PullRequest(k), summary))
       /\ call' = [NoCall EXCEPT !.op = "formatPREntry",
                                 !.args = <<PullRequest(k), summary>>,
                                 !.date = DateAt(now)]
  /\ UNCHANGED <<now, env, dirExists, manifest, homePage, dataStore, run, feedOut>>

\* fileManager.extractAndSavePRsFromMonthlyFiles()
RoundTripExtract ==
  /\ call.op = "formatPREntry"
  /\ \E listing \in Listings(DOMAIN files) :
       dataStore' = extractAndSavePRsFromMonthlyFiles(
                      [dirExists |-> dirExists, files |-> files], dataStore, listing, DateAt(now))
  /\ call' = [call EXCEPT !.op = "extractAndSavePRsFromMonthlyFiles"]
  /\ UNCHANGED <<now, env, dirExists, files, manifest, homePage, run, feedOut>>

RoundTripNext ==
  \/ RoundTripFormat
  \/ RoundTripExtract

SpecRoundTrip == RoundTripInit /\ [][RoundTripNext]_vars

----------------------------------------------------------------------------
(* The extractor on a store that holds about as many records as it retains *)

\* The n-th record of the store, merged on day t.
RecordMergedOn(n, t) == [PullRequest(n) EXCEPT !.merged_at = <<DateAt(t)>>]

\* The entries of one run that collected count records, from the record first
\* on, all merged on day t.
BatchEntries(first, count, t) ==
  [i \in 1..count |-> formatPREntry(RecordMergedOn(first + i - 1, t), <<"Summary">>)]

\* The files after three daily runs that stored n records together: a third
\* on day 0, a third on day 1 and the rest on day 2, the first day of the next
\* month.
StoreAfter(n) ==
  LET third == n \div 3
      run0 == updateMonthlyFile([dirExists |-> FALSE, files |-> <<>>],
                                BatchEntries(1, third, 0), DateAt(0))
      run1 == updateMonthlyFile(run0, BatchEntries(third + 1, third, 1), DateAt(1))
  IN updateMonthlyFile(run1, BatchEntries(2 * third + 1, n - 2 * third, 2), DateAt(2))

\* The records these runs stored: the number and the day of each.
StoredAfter(n) ==
  [i \in 1..n |-> [number |-> PRNumberOf(i),
                   day |-> IF i <= n \div 3 THEN 0 ELSE IF i <= 2 * (n \div 3) THEN 1 ELSE 2]]

RetentionInit ==
  /\ now = 2
  /\ env = {}
  /\ dirExists = TRUE
  /\ \E n \in (RetentionCap - MaxExtra)..RetentionCap :
       /\ files = StoreAfter(n).files
       /\ call = [NoCall EXCEPT !.args = StoredAfter(n)]
  /\ manifest = <<>>
  /\ homePage = <<>>
  /\ dataStore = <<>>
  /\ feedOut = NoFeed
  /\ run = IdleRun

\* A further run on day 2 stores one more record, merged that day or the day
\* before.
RetentionStore ==
  /\ call.op = "none"
  /\ Len(call.args) < RetentionCap + MaxExtra
  /\ \E t \in {now - 1, now} :
       LET n == Len(call.args) + 1
       IN /\ files' = updateMonthlyFile([dirExists |-> dirExists, files |-> files],
                                        BatchEntries(n, 1, t), DateAt(now)).files
          /\ call' = [call EXCEPT !.args = Append(@, [number |-> PRNumberOf(n), day |-> t])]
  /\ UNCHANGED <<now, env, dirExists, manifest, homePage, dataStore, run, feedOut>>

\* fileManager.extractAndSavePRsFromMonthlyFiles()
RetentionExtract ==
  /\ call.op = "none"
  /\ \E listing \in Listings(DOMAIN files) :
       dataStore' = extractAndSavePRsFromMonthlyFiles(
                      [dirExists |-> dirExists, files |-> files], dataStore, listing, DateAt(now))
  /\ call' = [call EXCEPT !.op = "extractAndSavePRsFromMonthlyFiles"]
  /\ UNCHANGED <<now, env, dirExists, files, manifest, homePage, run, feedOut>>

RetentionNext ==
  \/ RetentionStore
  \/ RetentionExtract

SpecRetention == RetentionInit /\ [][RetentionNext]_vars

----------------------------------------------------------------------------
(* The index builder on its own: partition files of several months and other *)
(* files appear in docs/monthly, and generateMonthlyIndex is called.         *)

\* The days on which the runs that create the partition files take place.
IndexDates == {[year |-> 2025, month |-> m, day |-> 15] : m \in 1..3}

IndexMd == <<"i", "n", "d", "e", "x", ".", "m", "d">>

\* A landing page that has lost its first action: only the link to the archive.
PageWithoutLabel == <<"text: archive", NL, LinkKey, "/", "monthly/", NL>>

\* A landing page whose first action links to a page outside docs/monthly and
\* whose second action links to a month.
PageLabelApart ==
  <<HomeLabel, NL, LinkKey, "/", "latest", NL,
    "text: archive", NL, LinkKey, "/", "monthly/", "2", "0", "2", "5", "-", "0", "1", ".", "m", "d", NL>>

\* Other files of the directory: a page index.md and a file that is no page.
OtherNames == {IndexMd, <<"n", "e", "x", "t", ".", "t", "x", "t">>}

IndexInit ==
  /\ now = 0
  /\ env = {}
  /\ dirExists \in BOOLEAN
  /\ files = <<>>
  /\ manifest = <<>>
  /\ homePage \in {<<InitialHomePage>>, <<PageWithoutLabel>>, <<PageLabelApart>>, <<>>}
  /\ dataStore = <<>>
  /\ feedOut = NoFeed
  /\ run = IdleRun
  /\ call = NoCall

\* A run in one of the months stores an entry.
IndexStore ==
  /\ \E date \in IndexDates :
       LET after == updateMonthlyFile([dirExists |-> dirExists, files |-> files],
                                      <<StoredEntry>>, date)
       IN /\ getMonthlyFilename(date) \notin DOMAIN files
          /\ dirExists' = after.dirExists
          /\ files' = after.files
  /\ call' = NoCall
  /\ UNCHANGED <<now, env, manifest, homePage, dataStore, run, feedOut>>

\* Another file is put into the directory.
IndexPlace ==
  /\ dirExists
  /\ \E name \in OtherNames \ DOMAIN files : files' = (name :> <<"# ", "Notes", NL>>) @@ files
  /\ call' = NoCall
  /\ UNCHANGED <<now, env, dirExists, manifest, homePage, dataStore, run, feedOut>>

\* fileManager.generateMonthlyIndex()
IndexGenerate ==
  /\ \E listing \in Listings(DOMAIN files) :
       LET after == generateMonthlyIndex([dirExists |-> dirExists, files |-> files,
                                          manifest |-> manifest, homePage |-> homePage], listing)
           st == [dirExists |-> dirExists, files |-> files,
                  manifest |-> manifest, homePage |-> homePage]
       IN /\ manifest' = after.manifest
          /\ homePage' = after.homePage
          /\ call' = [NoCall EXCEPT !.op = "generateMonthlyIndex",
                                    !.writes = generateMonthlyIndexWrites(st, listing),
                                    !.before = Snapshot]
  /\ UNCHANGED <<now, env, dirExists, files, dataStore, run, feedOut>>

IndexNext ==
  \/ IndexStore
  \/ IndexPlace
  \/ IndexGenerate

SpecIndex == IndexInit /\ [][IndexNext]_vars

\* Pages that somebody keeps next to the partition files and whose names
\* contain the shape of a partition file name: x2025-04.md and 12025-04.md.
StrayNames ==
  {<<"x">> \o getMonthlyFilename([year |-> 2025, month |-> 4, day |-> 1]),
   <<"1">> \o getMonthlyFilename([year |-> 2025, month |-> 4, day |-> 1])}

\* Such a page is put into the directory.
IndexPlaceStray ==
  /\ dirExists
  /\ \E name \in StrayNames \ DOMAIN files : files' = (name :> <<"# ", "Notes", NL>>) @@ files
  /\ call' = NoCall
  /\ UNCHANGED <<now, env, dirExists, manifest, homePage, dataStore, run, feedOut>>

IndexNamesNext ==
  \/ IndexStore
  \/ IndexPlaceStray
  \/ IndexGenerate

SpecIndexNames == IndexInit /\ [][IndexNamesNext]_vars

----------------------------------------------------------------------------
(* rss-generator.ts: the feed generator                                     *)

\* A content of pr-data.json that JSON.parse rejects.
InvalidJSON == [text |-> "invalid json"]

\* JSON.parse(content) succeeds on what JSON.stringify(dataStore) wrote.
Parses(content) == "items" \in DOMAIN content

BaseUrl == "https://yuheinakasaka.github.io/rails-pr-digest"
FeedFileName == "feed.xml"
NotFoundError == "PR data file not found"
ParseError == "Failed to parse PR data file"

\* The string that date.toISOString() gave to mergedAt: the date, "T" and the
\* time of the day (midnight for a date parsed from a page, a later time for
\* the fallback new Date()).
toISOString(mergedAt) ==
  ISODate(mergedAt.date)
  \o <<"T", IF mergedAt.timeOfDay = 0 THEN "00:00:00.000Z" ELSE "12:00:00.000Z">>

\* s.substring(start, end) on a sequence of characters.
Substring(s, start, end) ==
  SubSeq(s, start + 1, IF end < Len(s) THEN end ELSE Len(s))

\* loadPRData(): the store read from dataFile, or the error thrown.
loadPRData(store) ==
  IF store = <<>> THEN [error |-> <<NotFoundError>>, data |-> <<>>]
  ELSE IF ~Parses(store[1]) THEN [error |-> <<ParseError>>, data |-> <<>>]
  ELSE [error |-> <<>>, data |-> store]

\* The replacements of convertSummaryToHTML that apply to the summaries of the
\* model, whose tokens hold no markup: "\n\n" becomes "</p><p>", "\n" becomes
\* "<br>", and the whole is wrapped in a paragraph.
RECURSIVE BreakLines(_, _)
BreakLines(s, i) ==
  IF i > Len(s) THEN <<>>
  ELSE IF MatchAt(s, i, <<NL, NL>>) THEN <<"</p><p>">> \o BreakLines(s, i + 2)
  ELSE IF s[i] = NL THEN <<"<br>">> \o BreakLines(s, i + 1)
  ELSE <<s[i]>> \o BreakLines(s, i + 1)

convertSummaryToHTML(summary) == <<"<p>">> \o BreakLines(summary, 1) \o <<"</p>">>

\* A variant of addPRItem whose link names the year only.
addPRItemYearLink(feed, pr) ==
  LET yearMonth == Substring(toISOString(pr.mergedAt), 0, 4)
      itemLink == <<BaseUrl, "/monthly/">> \o yearMonth \o <<"#pr-">> \o NumToString(pr.number)
  IN [feed EXCEPT !.items = Append(@,
        [title |-> <<"[#">> \o NumToString(pr.number) \o <<"] ">> \o pr.title,
         id |-> pr.url,
         link |-> itemLink,
         description |-> pr.summary,
         content |-> convertSummaryToHTML(pr.summary),
         author |-> [name |-> <<"@">> \o pr.author, link |-> pr.authorUrl],
         date |-> pr.mergedAt])]

\* addPRItem(feed, pr): feed.addItem({...}).
addPRItem(feed, pr) ==
  LET yearMonth == Substring(toISOString(pr.mergedAt), 0, 7)
      itemLink == <<BaseUrl, "/monthly/">> \o yearMonth \o <<"#pr-">> \o NumToString(pr.number)
  IN [feed EXCEPT !.items = Append(@,
        [title |-> <<"[#">> \o NumToString(pr.number) \o <<"] ">> \o pr.title,
         id |-> pr.url,
         link |-> itemLink,
         description |-> pr.summary,
         content |-> convertSummaryToHTML(pr.summary),
         author |-> [name |-> <<"@">> \o pr.author, link |-> pr.authorUrl],
         date |-> pr.mergedAt])]

\* The loop "for (const pr of prData.items) this.addPRItem(feed, pr)" from the
\* index i on.
RECURSIVE AddItemsFrom(_, _, _)
AddItemsFrom(feed, items, i) ==
  IF i > Len(items) THEN feed
  ELSE AddItemsFrom(addPRItem(feed, items[i]), items, i + 1)

\* A variant of createFeed that adds the first record only.
createFeedFirstOnly(prData) ==
  addPRItem([title |-> "Ruby on Rails PR Digest",
             id |-> BaseUrl,
             link |-> BaseUrl,
             updated |-> prData.lastUpdated,
             items |-> <<>>], prData.items[1])

\* createFeed(prData): new Feed({...}) and the items added to it.
createFeed(prData) ==
  AddItemsFrom([title |-> "Ruby on Rails PR Digest",
                id |-> BaseUrl,
                link |-> BaseUrl,
                updated |-> prData.lastUpdated,
                items |-> <<>>], prData.items, 1)

\* feed.rss2(): the channel and one <item> per item added, in the order of the
\* additions; the <guid> of an item is its id.
rss2(feed) ==
  [channel |-> [title |-> feed.title, link |-> feed.link, lastBuildDate |-> feed.updated],
   item |-> [i \in 1..Len(feed.items) |->
               [title |-> feed.items[i].title,
                link |-> feed.items[i].link,
                guid |-> feed.items[i].id,
                pubDate |-> feed.items[i].date,
                description |-> feed.items[i].description,
                content |-> feed.items[i].content,
                author |-> feed.items[i].author]]]

\* writeRSSFile(xml): the directory of outputFile is created when it is
\* missing, and the document is written.
writeRSSFile(out, xml) == [dirExists |-> TRUE, feed |-> <<xml>>]

\* A variant of generate that writes a feed without items for an empty store.
generateWritesEmpty(store, out) ==
  LET loaded == loadPRData(store)
  IN IF loaded.error # <<>>
     THEN [out |-> out, error |-> loaded.error, writes |-> <<>>]
     ELSE [out |-> writeRSSFile(out, rss2(createFeed(loaded.data[1]))),
           error |-> <<>>, writes |-> <<FeedFileName>>]

\* generate(): the output after the call, the error it throws (<<>> when it
\* returns normally) and the files it wrote.
generate(store, out) ==
  LET loaded == loadPRData(store)
  IN IF loaded.error # <<>>
     THEN [out |-> out, error |-> loaded.error, writes |-> <<>>]
     ELSE IF Len(loaded.data[1].items) = 0
     THEN [out |-> out, error |-> <<>>, writes |-> <<>>]
     ELSE [out |-> writeRSSFile(out, rss2(createFeed(loaded.data[1]))),
           error |-> <<>>, writes |-> <<FeedFileName>>]

----------------------------------------------------------------------------
(* The feed generator after the runs of a few days: records are stored, the  *)
(* extractor writes pr-data.json, and RSSGenerator.generate() is called.     *)

FeedInit ==
  /\ now = 0
  /\ env = {}
  /\ dirExists \in BOOLEAN
  /\ files = <<>>
  /\ manifest = <<>>
  /\ homePage = <<>>
  /\ dataStore \in {<<>>, <<InvalidJSON>>}
  /\ feedOut = NoFeed
  /\ run = IdleRun
  /\ call = NoCall

\* A run stores one more record, merged that day or the day before; the runs of
\* a day precede the extraction and the feed generation of that day.
FeedStore ==
  /\ call.op = "none"
  /\ TotalHeadings(files) < MaxBlocks
  /\ \E t \in {now - 1, now} \cap 0..MaxTime :
       LET n == TotalHeadings(files) + 1
           after == updateMonthlyFile([dirExists |-> dirExists, files |-> files],
                                      BatchEntries(n, 1, t), DateAt(now))
       IN /\ dirExists' = after.dirExists
          /\ files' = after.files
  /\ call' = NoCall
  /\ UNCHANGED <<now, env, manifest, homePage, dataStore, feedOut, run>>

\* fileManager.extractAndSavePRsFromMonthlyFiles()
FeedExtract ==
  /\ \E listing \in Listings(DOMAIN files) :
       dataStore' = extractAndSavePRsFromMonthlyFiles(
                      [dirExists |-> dirExists, files |-> files], dataStore, listing, DateAt(now))
  /\ call' = [NoCall EXCEPT !.op = "extractAndSavePRsFromMonthlyFiles"]
  /\ UNCHANGED <<now, env, dirExists, files, manifest, homePage, feedOut, run>>

\* rssGenerator.generate()
FeedGenerate ==
  LET r == generate(dataStore, feedOut)
  IN /\ feedOut' = r.out
     /\ call' = [NoCall EXCEPT !.op = "generate", !.error = r.error, !.writes = r.writes,
                               !.before = Snapshot]
     /\ UNCHANGED <<now, env, dirExists, files, manifest, homePage, dataStore, run>>

\* A day passes.
FeedTick ==
  /\ now < MaxTime
  /\ now' = now + 1
  /\ call' = NoCall
  /\ UNCHANGED <<env, dirExists, files, manifest, homePage, dataStore, feedOut, run>>

FeedNext ==
  \/ FeedStore
  \/ FeedExtract
  \/ FeedGenerate
  \/ FeedTick

SpecFeed == FeedInit /\ [][FeedNext]_vars

----------------------------------------------------------------------------
(* Two runs that call updateMonthlyFile at the same time, as two processes   *)
(* of the operating system: each reads the partition file (existsSync and    *)
(* readFileSync) and later writes it (writeFileSync); the steps of the two   *)
(* processes interleave.                                                     *)

RaceProcs == {1, 2}

\* The state of a process outside updateMonthlyFile.
RaceIdle == [pc |-> "idle", entries |-> <<>>, view |-> <<>>, stale |-> FALSE]

\* The number of entries the processes are about to write.
RacePending(r) == Len(r[1].entries) + Len(r[2].entries)

RaceInit ==
  /\ now = 0
  /\ env = {}
  /\ \/ dirExists \in BOOLEAN /\ files = <<>>
     \/ /\ dirExists = TRUE
        /\ \E c \in InitialContents(DateAt(0)) : files = (getMonthlyFilename(DateAt(0)) :> c)
  /\ manifest = <<>>
  /\ homePage = <<>>
  /\ dataStore = <<>>
  /\ feedOut = NoFeed
  /\ run = [p \in RaceProcs |-> RaceIdle]
  /\ call = [NoCall EXCEPT !.before = Snapshot]

\* The first half of updateMonthlyFile(entries) in process p: the directory is
\* created when it is missing, and the file is read when it exists.
RaceRead(p) ==
  /\ run[p].pc = "idle"
  /\ \E entries \in EntryLists \ {<<>>} :
       /\ TotalHeadings(call.before.files) + Len(call.entries) + RacePending(run) + Len(entries)
            <= MaxBlocks
       /\ run' = [run EXCEPT ![p] =
                    [pc |-> "read", entries |-> entries,
                     view |-> IF getMonthlyFilename(DateAt(now)) \in DOMAIN files
                              THEN <<files[getMonthlyFilename(DateAt(now))]>> ELSE <<>>,
                     stale |-> FALSE]]
  /\ dirExists' = TRUE
  /\ UNCHANGED <<now, env, files, manifest, homePage, dataStore, feedOut, call>>

\* The second half: the content computed from what the process read is
\* written; what another process read before this write is stale from now on.
RaceWrite(p) ==
  /\ run[p].pc = "read"
  /\ LET filename == getMonthlyFilename(DateAt(now))
         seen == IF run[p].view = <<>> THEN <<>> ELSE (filename :> run[p].view[1])
         after == updateMonthlyFile([dirExists |-> dirExists, files |-> seen],
                                    run[p].entries, DateAt(now))
     IN /\ files' = (filename :> after.files[filename]) @@ files
        /\ run' = [q \in RaceProcs |->
                     IF q = p THEN RaceIdle
                     ELSE IF run[q].pc = "read" THEN [run[q] EXCEPT !.stale = TRUE]
                     ELSE run[q]]
        /\ call' = [call EXCEPT !.op = "updateMonthlyFile",
                                !.entries = @ \o run[p].entries,
                                !.result = @ \cup (IF run[p].stale THEN {p} ELSE {})]
  /\ UNCHANGED <<now, env, dirExists, manifest, homePage, dataStore, feedOut>>

RaceNext == \E p \in RaceProcs : RaceRead(p) \/ RaceWrite(p)

SpecRace == RaceInit /\ [][RaceNext]_vars

----------------------------------------------------------------------------
(* The extractor on partition files that hold damaged entry blocks: a block  *)
(* that lost its metadata line or its closing separator, as an edit of the   *)
(* page by hand leaves it.                                                   *)

BlockKinds == {"ok", "nometa", "nosep"}

\* The entry of the n-th record as formatPREntry writes it ("ok"), without its
\* metadata line ("nometa"), or without its separator line ("nosep").
Block(n, kind) ==
  LET entry == BatchEntries(n, 1, 0)[1]
      meta == IndexOf(entry, <<MergedLabel>>, 1)
      metaEnd == IndexOf(entry, <<NL, NL>>, meta)
  IN IF kind = "nometa" THEN SubSeq(entry, 1, meta - 1) \o From(entry, metaEnd + 2)
     ELSE IF kind = "nosep" THEN SubSeq(entry, 1, Len(entry) - 2)
     ELSE entry

\* The days of the runs that store the blocks: one in each of two months.
ParseDays == {0, 2}

ParseInit ==
  /\ now = 2
  /\ env = {}
  /\ dirExists = TRUE
  /\ files = <<>>
  /\ manifest = <<>>
  /\ homePage = <<>>
  /\ dataStore = <<>>
  /\ feedOut = NoFeed
  /\ run = IdleRun
  /\ call = NoCall

\* One more block, sound or damaged, comes to stand first in the file of a
\* month.
ParseStore ==
  /\ call.op = "none"
  /\ Len(call.args) < MaxBlocks
  /\ \E kind \in BlockKinds, d \in ParseDays :
       LET n == Len(call.args) + 1
       IN /\ files' = updateMonthlyFile([dirExists |-> dirExists, files |-> files],
                                        <<Block(n, kind)>>, DateAt(d)).files
          /\ call' = [call EXCEPT !.args = Append(@, [number |-> PRNumberOf(n), kind |-> kind,
                                                       file |-> getMonthlyFilename(DateAt(d))])]
  /\ UNCHANGED <<now, env, dirExists, manifest, homePage, dataStore, feedOut, run>>

\* fileManager.extractAndSavePRsFromMonthlyFiles()
ParseExtract ==
  /\ call.op = "none"
  /\ \E listing \in Listings(DOMAIN files) :
       dataStore' = extractAndSavePRsFromMonthlyFiles(
                      [dirExists |-> dirExists, files |-> files], dataStore, listing, DateAt(now))
  /\ call' = [call EXCEPT !.op = "extractAndSavePRsFromMonthlyFiles"]
  /\ UNCHANGED <<now, env, dirExists, files, manifest, homePage, feedOut, run>>

ParseNext ==
  \/ ParseStore
  \/ ParseExtract

SpecParse == ParseInit /\ [][ParseNext]_vars

----------------------------------------------------------------------------
(* getMonthlyFilename on pairs of instants *)

\* The years, months and days of the instants the file name is asked for:
\* the ends of the range of four-digit years, two adjacent years, every month
\* and the first and last day every month has.
FilenameDates == [year : {1000, 2025, 2026, 9999}, month : 1..12, day : {1, 28}]

\* Two instants t1 <= t2, not yet named.
FilenameInit ==
  /\ now = 0
  /\ env = {}
  /\ dirExists = FALSE
  /\ files = <<>>
  /\ manifest = <<>>
  /\ homePage = <<>>
  /\ dataStore = <<>>
  /\ feedOut = NoFeed
  /\ run = IdleRun
  /\ \E t1, t2 \in FilenameDates :
       /\ DayNumber(t1) <= DayNumber(t2)
       /\ call = [NoCall EXCEPT !.args = <<t1, t2>>]

\* getMonthlyFilename(t1), getMonthlyFilename(t2)
FilenameApply ==
  /\ call.op = "none"
  /\ call' = [call EXCEPT !.op = "getMonthlyFilename",
                          !.result = <<getMonthlyFilename(call.args[1]),
                                       getMonthlyFilename(call.args[2])>>]
  /\ UNCHANGED <<now, env, dirExists, files, manifest, homePage, dataStore, feedOut, run>>

FilenameNext == FilenameApply

SpecFilename == FilenameInit /\ [][FilenameNext]_vars

----------------------------------------------------------------------------
(* The heading scan of the duplicate guard and the heading pattern of the   *)
(* extractor on the same partition file                                     *)

\* The summaries the summarizer may return: plain text, text with a markdown
\* heading, text that mentions another pull request in the shape of a heading
\* marker, and text that quotes the heading line of another pull request.
ScanSummaries ==
  {<<"Summary">>,
   <<"##", " ", "Summary">>,
   <<"Follow-up", " ", "to", " ", HeadingOpen, "7", "]">>,
   <<HeadingOpen, "7", "]", "(", UrlPrefix, "7", ")", " ", "Earlier", " ", "fix">>}

\* The titles of the k-th pull request: its own, and the title of a revert
\* that quotes the heading marker of the reverted one.
ScanTitles(k) ==
  {PullRequest(k).title, <<"Revert", " ", HeadingOpen, "7", "]">>}

ScanInit ==
  /\ now = 0
  /\ env = {}
  /\ dirExists = TRUE
  /\ files = <<>>
  /\ manifest = <<>>
  /\ homePage = <<>>
  /\ dataStore = <<>>
  /\ feedOut = NoFeed
  /\ run = IdleRun
  /\ call = NoCall

\* fileManager.updateMonthlyFile([formatPREntry(pr, summary)])
ScanStore ==
  /\ call.op = "none"
  /\ Len(call.args) < MaxBlocks
  /\ \E title \in ScanTitles(Len(call.args) + 1), summary \in ScanSummaries :
       LET pr == [PullRequest(Len(call.args) + 1) EXCEPT !.title = title]
       IN /\ files' = updateMonthlyFile([dirExists |-> dirExists, files |-> files],
                                        <<formatPREntry(pr, summary)>>, DateAt(now)).files
          /\ call' = [call EXCEPT !.args = Append(@, pr.number)]
  /\ UNCHANGED <<now, env, dirExists, manifest, homePage, dataStore, feedOut, run>>

\* fileManager.getExistingPRNumbers()
ScanGetExisting ==
  /\ call.op = "none"
  /\ call' = [call EXCEPT !.op = "getExistingPRNumbers",
                          !.result = getExistingPRNumbers(files, DateAt(now)),
                          !.date = DateAt(now)]
  /\ UNCHANGED <<now, env, dirExists, files, manifest, homePage, dataStore, feedOut, run>>

ScanNext ==
  \/ ScanStore
  \/ ScanGetExisting

SpecScan == ScanInit /\ [][ScanNext]_vars

----------------------------------------------------------------------------
(* Properties of the partition store *)

\* Whether the text p occurs in s.
Contains(s, p) == \E i \in 1..Len(s) : MatchAt(s, i, p)

IsSuffix(p, s) == Len(p) <= Len(s) /\ SubSeq(s, Len(s) - Len(p) + 1, Len(s)) = p

\* The part of a page that holds its entry blocks: from the first heading
\* marker to the end.
EntryRegion(content) ==
  LET hits == {i \in 1..Len(content) : content[i] = HeadingOpen}
  IN IF hits = {} THEN <<>> ELSE From(content, Least(hits))

\* The identifiers of the headings of a text, in the order of the text.
RECURSIVE HeadingSeq(_)
HeadingSeq(content) ==
  LET hits == {i \in 1..Len(content) : HeadingAt(content, i) # 0}
  IN IF hits = {} THEN <<>>
     ELSE <<ParseInt(SubSeq(content, Least(hits) + 1, HeadingAt(content, Least(hits)) - 1))>>
          \o HeadingSeq(From(content, Least(hits) + 1))

RECURSIVE HeadingSeqOfAll(_)
HeadingSeqOfAll(entries) ==
  IF Len(entries) = 0 THEN <<>>
  ELSE HeadingSeq(entries[1]) \o HeadingSeqOfAll(Tail(entries))

\* The file that the last call of updateMonthlyFile addressed.
CallTarget == getMonthlyFilename(call.date)

\* The last operation merged a non-empty batch into a file that existed.
MergedIntoExisting ==
  /\ call.op = "updateMonthlyFile"
  /\ call.entries # <<>>
  /\ CallTarget \in DOMAIN call.before.files

\* C2: a merge of a non-empty batch into an existing partition file keeps every
\* stored entry block, byte for byte and in the stored order: the part of the
\* old page from its first heading to its end is the end of the new page, and
\* no other partition file changes.
C2_StoredEntriesKept ==
  MergedIntoExisting =>
    /\ CallTarget \in DOMAIN files
    /\ IsSuffix(EntryRegion(call.before.files[CallTarget]), files[CallTarget])
    /\ \A f \in DOMAIN call.before.files \ {CallTarget} :
         f \in DOMAIN files /\ files[f] = call.before.files[f]

\* C2 witness: a merge into a page without frontmatter that held an entry.
C2_Witness ==
  /\ MergedIntoExisting
  /\ FrontmatterClose(call.before.files[CallTarget]) = 0
  /\ HeadingSeq(call.before.files[CallTarget]) # <<>>

\* C3: after a merge into a file that already holds entries, the headings of the
\* file are those of the new entries in their input order, followed by the
\* headings that were stored before.
C3_NewEntriesFirst ==
  MergedIntoExisting =>
    HeadingSeq(files[CallTarget])
      = HeadingSeqOfAll(call.entries) \o HeadingSeq(call.before.files[CallTarget])

\* C3 witness: two entries (10, then 9) merged into a file that held 11.
C3_Witness ==
  /\ MergedIntoExisting
  /\ HeadingSeq(files[CallTarget]) = <<10, 9, 11>>

\* C4: updateMonthlyFile([]) leaves the file system as it was: no directory is
\* made and no file, manifest, landing page or data store is written.
C4_EmptyBatchNoOp ==
  (call.op = "updateMonthlyFile" /\ call.entries = <<>>) => Snapshot = call.before

\* C4 witness: the empty batch when docsDir does not exist.
C4_Witness == call.op = "updateMonthlyFile" /\ call.entries = <<>> /\ ~dirExists

\* C5: getExistingPRNumbers returns the empty set when the file of the current
\* month does not exist, and otherwise exactly the numbers n whose heading
\* token "## [#n]" occurs in the file.
C5_ExistingNumbers ==
  call.op = "getExistingPRNumbers" =>
    IF CallTarget \notin DOMAIN files THEN call.result = {}
    ELSE call.result = {n \in 0..PRNumberOf(4) :
                          Contains(files[CallTarget], <<HeadingOpen>> \o NumToString(n) \o <<"]">>)}

\* C5 witness: a file with three headings, in the order 9, 10, 11.
C5_Witness ==
  /\ call.op = "getExistingPRNumbers"
  /\ call.result = {9, 10, 11}
  /\ HeadingSeq(files[CallTarget]) = <<9, 10, 11>>

----------------------------------------------------------------------------
(* Properties of the runs of main *)

\* The heading token of the record with the number n.
HeadingToken(n) == <<HeadingOpen>> \o NumToString(n) \o <<"]">>

\* How many entry blocks the partition files hold for the number n.
BlocksOf(n) ==
  Cardinality({<<f, i>> \in UNION {{f} \X (1..Len(files[f])) : f \in DOMAIN files} :
                 MatchAt(files[f], i, HeadingToken(n))})

\* C1: after any sequence of runs of main from an empty docs directory, no
\* number has more than one entry block across the partition files, also when
\* the month changes between runs.
C1_NoDuplicateBlocks ==
  \A k \in 1..MaxPR : BlocksOf(PRNumberOf(k)) <= 1

\* The run has ended after it fetched the details of at least one new record.
RunStored == run.pc = "done" /\ run.detailed # {}

\* C6: at the end of a run, every new record whose details were fetched has its
\* heading in the partition file the run wrote; a record whose summarization
\* failed is there as a whole block with the error placeholder as its summary.
C6_FailedSummaryStored ==
  run.pc = "done" =>
    \A k \in 1..MaxPR :
      /\ PRNumberOf(k) \in run.detailed =>
           /\ run.target \in DOMAIN files
           /\ Contains(files[run.target], HeadingToken(PRNumberOf(k)))
      /\ PRNumberOf(k) \in run.failed =>
           /\ run.target \in DOMAIN files
           /\ Contains(files[run.target],
                       formatPREntry(PullRequest(k), <<SummaryErrorPrefix, "API Error">>))

\* C6 witness: a run has ended in which a summarization failed.
C6_Witness == RunStored /\ run.failed # {} /\ run.target \in DOMAIN files

\* C7: a run that adds a record performs the merge, the manifest rebuild, the
\* extraction and the feed rendering, in this order, so that at its end the
\* data store has been regenerated and holds the run's records.
C7_FourStepsInOrder ==
  (RunStored /\ run.entries # <<>>) =>
    /\ run.steps = <<"updateMonthlyFile", "generateMonthlyIndex",
                     "extractAndSavePRsFromMonthlyFiles", "RSSGenerator.generate">>
    /\ dataStore # <<>>
    /\ \A n \in run.detailed : \E i \in 1..Len(dataStore[1].items) :
         dataStore[1].items[i].number = n

----------------------------------------------------------------------------
(* Properties of the formatter and the extractor *)

\* C8: the extractor, run on a file that holds only formatPREntry(record,
\* summary), yields exactly one item, whose number, title and summary are the
\* record's number, the record's title and the summary given to formatPREntry.
C8_RoundTrip ==
  (call.op = "extractAndSavePRsFromMonthlyFiles" /\ call.args # <<>>) =>
    /\ dataStore # <<>>
    /\ Len(dataStore[1].items) = 1
    /\ dataStore[1].items[1].number = call.args[1].number
    /\ dataStore[1].items[1].title = call.args[1].title
    /\ dataStore[1].items[1].summary = call.args[2]

\* The extractor has run on the store whose records call.args lists.
Extracted == call.op = "extractAndSavePRsFromMonthlyFiles" /\ dataStore # <<>>

\* The numbers of the items of the data store.
RetainedNumbers == {dataStore[1].items[i].number : i \in 1..Len(dataStore[1].items)}

\* C9: the extractor stores all records when the partition files hold 50 or
\* fewer, and exactly 50 when they hold more; the stored items are distinct
\* records of the files with their merge dates, and every retained record is
\* merged on the same day as or later than every dropped one.
C9_RetentionCap ==
  Extracted =>
    LET stored == call.args
        items == dataStore[1].items
    IN /\ Len(items) = (IF Len(stored) <= RetentionCap THEN Len(stored) ELSE RetentionCap)
       /\ dataStore[1].totalCount = Len(items)
       /\ Cardinality(RetainedNumbers) = Len(items)
       /\ \A i \in 1..Len(items) : \E j \in 1..Len(stored) :
            /\ stored[j].number = items[i].number
            /\ items[i].mergedAt = [date |-> DateAt(stored[j].day), timeOfDay |-> 0]
       /\ \A j, k \in 1..Len(stored) :
            (stored[j].number \in RetainedNumbers /\ stored[k].number \notin RetainedNumbers)
              => stored[j].day >= stored[k].day

\* C9 witness: the files hold more than 50 records, some of them merged on the
\* oldest day, and 50 are stored.
C9_Witness ==
  /\ Extracted
  /\ Len(call.args) > RetentionCap
  /\ Len(dataStore[1].items) = RetentionCap
  /\ \E k \in 1..Len(call.args) : call.args[k].number \notin RetainedNumbers

----------------------------------------------------------------------------
(* Properties of the index builder *)

\* The names of the partition files in the directory: the names that
\* getMonthlyFilename gives to the months.
PartitionFiles ==
  {f \in DOMAIN files :
     \E y \in 2025..2026, m \in 1..12 : f = getMonthlyFilename([year |-> y, month |-> m, day |-> 1])}

\* C10: after generateMonthlyIndex on an existing directory the manifest is
\* determined by the set of file names alone: it has exactly one entry for each
\* partition file, none for index.md or any other file, the entries are in
\* strictly descending order of their file names, and each entry carries the
\* year, the month and the url of its file name.
C10_ManifestOfFileSet ==
  (call.op = "generateMonthlyIndex" /\ dirExists) =>
    /\ manifest # <<>>
    /\ LET m == manifest[1]
       IN /\ Len(m) = Cardinality(PartitionFiles)
          /\ {m[i].filename : i \in 1..Len(m)} = PartitionFiles
          /\ \A i \in 1..Len(m) : \A j \in 1..Len(m) :
               i < j => StrLess(m[j].filename, m[i].filename)
          /\ \A i \in 1..Len(m) : \E mo \in 1..12 :
               /\ m[i].filename = m[i].year \o <<"-">> \o PadStart2(NumToString(mo)) \o MdSuffix
               /\ m[i].month = mo
               /\ m[i].url = <<"monthly/">> \o m[i].filename

\* C10 witness: the directory holds 2025-01.md, 2025-02.md, 2025-03.md, index.md
\* and another file, and the manifest lists 2025-03, 2025-02, 2025-01.
C10_Witness ==
  /\ call.op = "generateMonthlyIndex"
  /\ IndexMd \in DOMAIN files
  /\ Cardinality(DOMAIN files) = 5
  /\ manifest # <<>>
  /\ [i \in 1..Len(manifest[1]) |-> manifest[1][i].month] = <<3, 2, 1>>

\* The text has the labelled link: the label, and on the next line a link to a
\* page of docs/monthly.
HasLabelledLink(page) ==
  \E i \in 1..Len(page) :
    MatchAt(page, i, <<HomeLabel, NL, LinkKey>>) /\ MonthlyLinkAt(page, i + 3) # 0

\* The greatest name of the partition files, as a set with one element.
NewestPartitionFile ==
  {f \in PartitionFiles : \A g \in PartitionFiles : g = f \/ StrLess(g, f)}

\* C11: after generateMonthlyIndex on a directory with partition files, a
\* landing page that had the labelled link has it with the target
\* /monthly/<newest>.md, the greatest partition file name; and the manifest is
\* the first file written, before the landing page.
C11_HomeLinksNewest ==
  (/\ call.op = "generateMonthlyIndex"
   /\ dirExists
   /\ PartitionFiles # {}
   /\ call.before.homePage # <<>>
   /\ HasLabelledLink(call.before.homePage[1])) =>
    /\ homePage # <<>>
    /\ \E f \in NewestPartitionFile :
         Contains(homePage[1], <<HomeLabel, NL, LinkKey, "/", "monthly/">> \o f \o <<NL>>)
    /\ call.writes # <<>>
    /\ call.writes[1] = IndexFileName
    /\ \A i \in 1..Len(call.writes) : call.writes[i] = HomePageName => i > 1

\* C11 witness: with three partition files the link, which pointed to an
\* older month, is rewritten after the manifest was written.
C11_Witness ==
  /\ call.op = "generateMonthlyIndex"
  /\ Cardinality(PartitionFiles) = 3
  /\ call.before.homePage # <<>>
  /\ HasLabelledLink(call.before.homePage[1])
  /\ homePage # call.before.homePage
  /\ call.writes = <<IndexFileName, HomePageName>>

----------------------------------------------------------------------------
(* Properties of the frontmatter and the header of a partition file *)

\* The lines of a text, without their line breaks.
SplitLines(s) ==
  LET isBreak(i) == i = 0 \/ i = Len(s) + 1 \/ s[i] = NL
      breaks == SelectSeq([i \in 1..(Len(s) + 2) |-> i - 1], isBreak)
  IN [k \in 1..(Len(breaks) - 1) |-> SubSeq(s, breaks[k] + 1, breaks[k + 1] - 1)]

\* The page opens with a frontmatter block.
HasFrontmatter(content) == FrontmatterClose(content) # 0

\* The lines of the frontmatter block, between its delimiters.
FrontmatterLines(content) == SplitLines(SubSeq(content, 3, FrontmatterClose(content) - 1))

\* The last operation merged a non-empty batch into a file with frontmatter.
MergedIntoFrontmatter ==
  MergedIntoExisting /\ HasFrontmatter(call.before.files[CallTarget])

\* C12: a merge into an existing file with frontmatter writes the frontmatter
\* back line by line: the lastUpdated line carries the date of the merge, every
\* other line (title, description) is as it was.
C12_LastUpdatedIsMergeDate ==
  MergedIntoFrontmatter =>
    /\ HasFrontmatter(files[CallTarget])
    /\ LET old == FrontmatterLines(call.before.files[CallTarget])
           new == FrontmatterLines(files[CallTarget])
       IN /\ Len(new) = Len(old)
          /\ \E k \in 1..Len(old) : MatchAt(old[k], 1, <<LastUpdatedKey>>)
          /\ \A k \in 1..Len(old) :
               new[k] = IF MatchAt(old[k], 1, <<LastUpdatedKey>>)
                        THEN <<LastUpdatedKey>> \o ISODate(call.date)
                        ELSE old[k]

\* C12 witness: a second merge, a day after the first: the file held an entry
\* of an earlier merge and lastUpdated: 2025-12-30, and now has 2025-12-31.
C12_Witness ==
  /\ MergedIntoFrontmatter
  /\ call.date = DateAt(1)
  /\ Contains(call.before.files[CallTarget], EntryOf(1))
  /\ Contains(call.before.files[CallTarget], <<LastUpdatedKey>> \o ISODate(DateAt(0)) \o <<NL>>)
  /\ Contains(files[CallTarget], <<LastUpdatedKey>> \o ISODate(DateAt(1)) \o <<NL>>)
  /\ ~Contains(files[CallTarget], <<LastUpdatedKey>> \o ISODate(DateAt(0)))

\* How often the token c occurs in a text.
CountOf(content, c) == Cardinality({i \in 1..Len(content) : content[i] = c})

\* The last operation merged a non-empty batch.
Merged == call.op = "updateMonthlyFile" /\ call.entries # <<>>

\* C13: updateMonthlyFile synthesizes frontmatter and header exactly when the
\* file did not exist: a missing file becomes fresh frontmatter, fresh header
\* and the entries; a file without frontmatter becomes the entries followed by
\* its whole old content; a file with frontmatter gets no further title line
\* and no further header line.
C13_PreambleOnlyForNewFile ==
  Merged =>
    LET added == Join(call.entries, <<NL>>) \o <<NL>>
    IN IF CallTarget \notin DOMAIN call.before.files
       THEN files[CallTarget] = NewFrontmatter(call.date) \o NewHeader(call.date) \o added
       ELSE LET old == call.before.files[CallTarget]
            IN /\ ~HasFrontmatter(old) => files[CallTarget] = added \o old
               /\ CountOf(files[CallTarget], "title: ") = CountOf(old, "title: ")
               /\ CountOf(files[CallTarget], "# ") = CountOf(old, "# ")

\* C13 witness: two entries are merged into a file that did not exist, in a
\* directory that did not exist.
C13_Witness ==
  /\ Merged
  /\ Len(call.entries) = 2
  /\ ~call.before.dirExists
  /\ CallTarget \notin DOMAIN call.before.files
  /\ CountOf(files[CallTarget], "title: ") = 1
  /\ CountOf(files[CallTarget], "# ") = 1

\* How often the heading token of the number n occurs in a text.
HeadingsOf(content, n) ==
  Cardinality({i \in 1..Len(content) : MatchAt(content, i, HeadingToken(n))})

\* The numbers the store specification works with.
StoreNumbers == {PRNumberOf(k) : k \in 1..3}

\* C14: the store does not suppress duplicates: after a merge every number has
\* as many headings in the file as it had before plus as many as the batch
\* carried, so that merging the same block twice leaves two headings; and
\* getExistingPRNumbers reports every number of the batch as existing.
C14_StoreKeepsDuplicates ==
  Merged =>
    LET old == IF CallTarget \in DOMAIN call.before.files
               THEN call.before.files[CallTarget] ELSE <<>>
        added == Join(call.entries, <<NL>>)
    IN \A n \in StoreNumbers :
         /\ HeadingsOf(files[CallTarget], n) = HeadingsOf(old, n) + HeadingsOf(added, n)
         /\ HeadingsOf(added, n) > 0 => n \in getExistingPRNumbers(files, call.date)

\* C14 witness: the block of number 9 is merged into the file that holds it
\* already; the file has the heading twice and 9 is reported as existing.
C14_Witness ==
  /\ Merged
  /\ call.entries = <<EntryOf(1)>>
  /\ CallTarget \in DOMAIN call.before.files
  /\ HeadingsOf(call.before.files[CallTarget], 9) = 1
  /\ HeadingsOf(files[CallTarget], 9) = 2
  /\ 9 \in getExistingPRNumbers(files, call.date)

----------------------------------------------------------------------------
(* Properties of the heading line of an entry *)

\* The heading line that carries the explicit anchor of the record.
AnchoredHeading(pr) ==
  <<HeadingOpen>> \o NumToString(pr.number) \o <<"]", "(">> \o pr.html_url
  \o <<")", " ">> \o pr.title \o <<" ", "{#pr-">> \o NumToString(pr.number) \o <<"}">>

\* C18: formatPREntry renders the heading line as "## [#<number>](<url>)
\* <title> {#pr-<number>}": the title is followed by the anchor of the record,
\* also for a record without user.
C18_HeadingHasAnchor ==
  call.op = "formatPREntry" =>
    Contains(files[getMonthlyFilename(call.date)],
             <<NL>> \o AnchoredHeading(call.args[1]) \o <<NL>>)

----------------------------------------------------------------------------
(* Properties of the failures in a run of main *)

\* The numbers of a list of numbers.
NumbersIn(list) == {list[i] : i \in 1..Len(list)}

\* Nothing on the disk differs from what it was when main started.
NothingWritten ==
  /\ dirExists = run.before.dirExists
  /\ files = run.before.files
  /\ manifest = run.before.manifest
  /\ homePage = run.before.homePage
  /\ dataStore = run.before.dataStore
  /\ feedOut = run.before.feedOut

\* The headings of the number n that the file f held when main started.
HeadingsBefore(f, n) ==
  IF f \in DOMAIN run.before.files THEN HeadingsOf(run.before.files[f], n) ELSE 0

\* C19: a failure of a fetch never aborts a run. A run whose fetchRecentPRs
\* yielded no record ends with no file written and no record processed. In a
\* run that found new records, getPRDetails is called for every one of them;
\* a record whose details failed is not summarized and gets no entry in any
\* file, and every record whose details arrived is summarized and has got its
\* entry in the file the run wrote.
C19_FetchFailureSkips ==
  run.pc = "done" =>
    /\ run.prs = <<>> =>
          NothingWritten /\ run.detailCalls = <<>> /\ run.summaryCalls = <<>>
    /\ run.newPRs # <<>> =>
          /\ run.detailCalls = [i \in 1..Len(run.newPRs) |-> run.newPRs[i].number]
          /\ Len(run.entries) = Cardinality(run.detailed)
          /\ \A i \in 1..Len(run.newPRs) :
               LET n == run.newPRs[i].number
               IN IF n \in run.detailed
                  THEN /\ n \in NumbersIn(run.summaryCalls)
                       /\ run.target # <<>>
                       /\ HeadingsOf(files[run.target], n) = HeadingsBefore(run.target, n) + 1
                  ELSE /\ n \notin NumbersIn(run.summaryCalls)
                       /\ \A f \in DOMAIN files :
                            HeadingsOf(files[f], n) = HeadingsBefore(f, n)

\* C19 witness: a run found two new records; the details of the first failed
\* and the second was summarized and stored.
C19_Witness ==
  /\ run.pc = "done"
  /\ Len(run.newPRs) = 2
  /\ run.newPRs[1].number \notin run.detailed
  /\ run.newPRs[2].number \in run.detailed
  /\ run.summaryCalls = <<run.newPRs[2].number>>
  /\ run.target # <<>>
  /\ HeadingsOf(files[run.target], run.newPRs[2].number) = 1
  /\ HeadingsOf(files[run.target], run.newPRs[1].number) = 0

\* The environment lacks one of the two credentials.
CredentialMissing == "GITHUB_TOKEN" \notin env \/ "OPENAI_API_KEY" \notin env

\* C20: when GITHUB_TOKEN or OPENAI_API_KEY is absent, a started run is at
\* exit(1) and never anywhere else: no fetch was issued, no details and no
\* summary were requested, and nothing was written.
C20_MissingCredentialExits ==
  (CredentialMissing /\ run.pc # "idle") =>
    /\ run.pc = "exit1"
    /\ run.prs = <<>>
    /\ run.detailCalls = <<>>
    /\ run.summaryCalls = <<>>
    /\ run.steps = <<>>
    /\ NothingWritten
    /\ files = <<>>
    /\ manifest = <<>>

\* C20 witness: main has exited with status 1 in an environment that has
\* GITHUB_TOKEN but no OPENAI_API_KEY.
C20_Witness ==
  /\ run.pc = "exit1"
  /\ "GITHUB_TOKEN" \in env
  /\ "OPENAI_API_KEY" \notin env
  /\ NothingWritten

----------------------------------------------------------------------------
(* Properties of the feed generator *)

\* The last operation was generate(), on the store that pr-data.json holds.
Generating == call.op = "generate"

\* generate() found a store that parses and has at least one item.
Generated == Generating /\ dataStore # <<>> /\ Parses(dataStore[1]) /\ Len(dataStore[1].items) >= 1

\* The document that feed.xml holds.
FeedDocument == feedOut.feed[1]

\* C15: generate tells a missing input from an empty one: when pr-data.json is
\* absent or is not valid JSON it throws and writes no feed file; when the
\* store parses and has no items it returns normally and writes no feed file.
C15_FatalVsEmpty ==
  Generating =>
    /\ dataStore = <<>> =>
         call.error = <<NotFoundError>> /\ call.writes = <<>> /\ feedOut = call.before.feedOut
    /\ (dataStore # <<>> /\ ~Parses(dataStore[1])) =>
         call.error = <<ParseError>> /\ call.writes = <<>> /\ feedOut = call.before.feedOut
    /\ (dataStore # <<>> /\ Parses(dataStore[1]) /\ dataStore[1].items = <<>>) =>
         call.error = <<>> /\ call.writes = <<>> /\ feedOut = call.before.feedOut

\* C15 witness: generate was called on a store that the extractor wrote from
\* an empty directory: it parses, has no items, and no feed file exists.
C15_Witness ==
  /\ Generating
  /\ dataStore # <<>>
  /\ Parses(dataStore[1])
  /\ dataStore[1].items = <<>>
  /\ dataStore[1].totalCount = 0
  /\ call.error = <<>>
  /\ feedOut.feed = <<>>

\* C16: for a store with n >= 1 items the feed has exactly n items, the i-th
\* item is made from the i-th record of the store, and its guid is that
\* record's url.
C16_OneItemPerRecord ==
  Generated =>
    /\ feedOut.feed # <<>>
    /\ call.error = <<>>
    /\ Len(FeedDocument.item) = Len(dataStore[1].items)
    /\ \A i \in 1..Len(dataStore[1].items) :
         /\ FeedDocument.item[i].guid = dataStore[1].items[i].url
         /\ FeedDocument.item[i].title
              = <<"[#">> \o NumToString(dataStore[1].items[i].number) \o <<"] ">>
                \o dataStore[1].items[i].title
         /\ FeedDocument.item[i].description = dataStore[1].items[i].summary

\* C16 witness: the feed is generated again from a store of two records with
\* different numbers; the record that was in the earlier feed has the same
\* guid in the new one.
C16_Witness ==
  /\ Generated
  /\ Len(dataStore[1].items) = 2
  /\ dataStore[1].items[1].number # dataStore[1].items[2].number
  /\ call.before.feedOut.feed # <<>>
  /\ Len(call.before.feedOut.feed[1].item) = 1
  /\ Len(FeedDocument.item) = 2
  /\ \E i \in 1..2 : FeedDocument.item[i].guid = call.before.feedOut.feed[1].item[1].guid

\* The year and the month of a date as "YYYY-MM".
YearMonthOf(date) ==
  NumToString(date.year) \o <<"-">>
  \o (IF date.month < 10 THEN <<"0">> ELSE <<>>) \o NumToString(date.month)

\* C17: the link of every item is baseUrl, "/monthly/", the year and the month
\* of the record's mergedAt, "#pr-" and the record's number.
C17_ItemLink ==
  Generated =>
    /\ feedOut.feed # <<>>
    /\ \A i \in 1..Len(FeedDocument.item) :
         i <= Len(dataStore[1].items) =>
           FeedDocument.item[i].link
             = <<BaseUrl, "/monthly/">> \o YearMonthOf(dataStore[1].items[i].mergedAt.date)
               \o <<"#pr-">> \o NumToString(dataStore[1].items[i].number)

\* C17 witness: the record 9, merged on 2025-12-30, has the link
\* <baseUrl>/monthly/2025-12#pr-9.
C17_Witness ==
  /\ Generated
  /\ \E i \in 1..Len(FeedDocument.item) :
       /\ dataStore[1].items[i].number = 9
       /\ dataStore[1].items[i].mergedAt.date = [year |-> 2025, month |-> 12, day |-> 30]
       /\ FeedDocument.item[i].link
            = <<BaseUrl, "/monthly/", "2", "0", "2", "5", "-", "1", "2", "#pr-", "9">>

----------------------------------------------------------------------------
(* Properties of concurrent runs *)

\* The headings of the number n in a list of entries.
HeadingsIn(entries, n) == HeadingsOf(Join(entries, <<NL>>), n)

\* The headings of the number n that the files held before the first write.
HeadingsAtStart(n) ==
  IF getMonthlyFilename(DateAt(0)) \in DOMAIN call.before.files
  THEN HeadingsOf(call.before.files[getMonthlyFilename(DateAt(0))], n) ELSE 0

\* An entry block that a finished write stored is no longer in the file.
LostUpdate ==
  /\ call.entries # <<>>
  /\ \E n \in StoreNumbers :
       HeadingsOf(files[getMonthlyFilename(DateAt(0))], n)
         < HeadingsAtStart(n) + HeadingsIn(call.entries, n)

\* C21: an update is lost only when two runs interleave on the partition
\* file: whenever a block written by a finished updateMonthlyFile is missing
\* from the file, some process wrote after another process had written
\* between its read and its write. With one run at a time no block is lost.
C21_LostUpdateNeedsInterleaving == LostUpdate => call.result # {}

\* C21 witness: both processes read the file, then both wrote one entry; the
\* file holds the block of one of them only.
C21_Witness ==
  /\ LostUpdate
  /\ \A p \in RaceProcs : run[p].pc = "idle"
  /\ Len(call.entries) = 2
  /\ HeadingsIn(call.entries, 9) = 1
  /\ HeadingsIn(call.entries, 10) = 1
  /\ HeadingsOf(files[getMonthlyFilename(DateAt(0))], 9)
       + HeadingsOf(files[getMonthlyFilename(DateAt(0))], 10) = 1

----------------------------------------------------------------------------
(* Properties of the names in the manifest *)

\* The whole name is four digits, a hyphen, two digits and ".md".
CanonicalName(f) == Len(f) = 10 /\ ShapeAt(f, 1)

\* C22: every entry of the manifest written by generateMonthlyIndex names a
\* file whose whole name has the canonical shape; index.md and a file whose
\* name only contains the shape have no entry.
C22_ManifestCanonicalNames ==
  (call.op = "generateMonthlyIndex" /\ manifest # <<>>) =>
    /\ \A i \in 1..Len(manifest[1]) : CanonicalName(manifest[1][i].filename)
    /\ {manifest[1][i].filename : i \in 1..Len(manifest[1])}
         = {f \in DOMAIN files : CanonicalName(f)}

----------------------------------------------------------------------------
(* Properties of the landing page *)

\* The tokens of a text from the index a + 1 to the index Len - b.
Middle(s, a, b) == SubSeq(s, a + 1, Len(s) - b)

\* new differs from old only in the target of one link that comes after the
\* label: the texts agree up to a "link: " and from the end of that line on,
\* and the new target is /monthly/<newest partition file>.
OnlyLinkTargetDiffers(old, new) ==
  \E a \in 1..Len(old) : \E b \in 0..(Len(old) - a) :
    /\ a + b <= Len(new)
    /\ SubSeq(new, 1, a) = SubSeq(old, 1, a)
    /\ SubSeq(new, Len(new) - b + 1, Len(new)) = SubSeq(old, Len(old) - b + 1, Len(old))
    /\ old[a] = LinkKey
    /\ Contains(SubSeq(old, 1, a), <<HomeLabel>>)
    /\ \A k \in 1..Len(Middle(old, a, b)) : Middle(old, a, b)[k] \notin {NL, LinkKey}
    /\ \E f \in NewestPartitionFile : Middle(new, a, b) = <<"/", "monthly/">> \o f

\* The landing page was written by the last call.
HomePageWritten == \E i \in 1..Len(call.writes) : call.writes[i] = HomePageName

----------------------------------------------------------------------------
(* Properties of the data store *)

\* C24: every data store the extractor writes has its items in non-increasing
\* order of mergedAt, has at most 50 items, and has totalCount equal to the
\* number of its items.
C24_StoreSortedCapped ==
  Extracted =>
    LET items == dataStore[1].items
    IN /\ \A i \in 1..Len(items) : \A j \in 1..Len(items) :
            i < j => getTime(items[i].mergedAt) >= getTime(items[j].mergedAt)
       /\ Len(items) <= RetentionCap
       /\ dataStore[1].totalCount = Len(items)

\* C24 witness: the files hold more than 50 records merged on three days; the
\* store has 50 items, the first merged later than the last, and counts 50.
C24_Witness ==
  /\ Extracted
  /\ Len(call.args) > RetentionCap
  /\ dataStore[1].totalCount = RetentionCap
  /\ getTime(dataStore[1].items[1].mergedAt)
       > getTime(dataStore[1].items[Len(dataStore[1].items)].mergedAt)
  /\ Cardinality({dataStore[1].items[i].mergedAt : i \in 1..Len(dataStore[1].items)}) = 3

----------------------------------------------------------------------------
(* Properties of the extractor on damaged blocks *)

\* C25: a block without metadata line or without separator yields no item,
\* every sound block of the same file and of the other files yields its
\* item, and the data store is written.
C25_MalformedSkipped ==
  call.op = "extractAndSavePRsFromMonthlyFiles" =>
    /\ dataStore # <<>>
    /\ dataStore[1].lastUpdated = DateAt(now)
    /\ LET items == dataStore[1].items
           sound == {k \in 1..Len(call.args) : call.args[k].kind = "ok"}
       IN /\ Len(items) = Cardinality(sound)
          /\ {items[i].number : i \in 1..Len(items)} = {call.args[k].number : k \in sound}
          /\ \A i \in 1..Len(items) :
               /\ items[i].summary = <<"Summary">>
               /\ items[i].mergedAt = [date |-> DateAt(0), timeOfDay |-> 0]

\* C25 witness: one file holds a block without metadata, a sound block and a
\* block without separator; the store has the sound one only.
C25_Witness ==
  /\ call.op = "extractAndSavePRsFromMonthlyFiles"
  /\ Len(call.args) = 3
  /\ call.args[1].kind = "nosep"
  /\ call.args[2].kind = "ok"
  /\ call.args[3].kind = "nometa"
  /\ call.args[1].file = call.args[2].file
  /\ call.args[2].file = call.args[3].file
  /\ dataStore # <<>>
  /\ Len(dataStore[1].items) = 1
  /\ dataStore[1].items[1].number = call.args[2].number

----------------------------------------------------------------------------
(* Properties of getMonthlyFilename *)

\* The month part of a file name: the text between the year's dash and the
\* extension.
MonthPart(f) == SubSeq(f, 6, Len(f) - 3)

\* C26: for instants t1 <= t2 with four-digit years the name for t1 does not
\* come after the name for t2 in the order of strings, the month part of
\* each name is two digits naming a month 01..12, and instants of the same
\* year and month get the same name.
C26_FilenameMonotonic ==
  call.op = "getMonthlyFilename" =>
    LET t1 == call.args[1]
        t2 == call.args[2]
        f1 == call.result[1]
        f2 == call.result[2]
    IN /\ ~StrLess(f2, f1)
       /\ \A f \in {f1, f2} :
            /\ Len(MonthPart(f)) = 2
            /\ \A i \in 1..2 : MonthPart(f)[i] \in DigitSet
            /\ ParseInt(MonthPart(f)) \in 1..12
       /\ (t1.year = t2.year /\ t1.month = t2.month) => f1 = f2

\* C26 witness: September and October of one year, where the number of
\* digits of the month changes, and two days of one month.
C26_Witness ==
  /\ call.op = "getMonthlyFilename"
  /\ call.args[1] = [year |-> 2025, month |-> 9, day |-> 28]
  /\ call.args[2] = [year |-> 2025, month |-> 10, day |-> 1]
  /\ StrLess(call.result[1], call.result[2])

----------------------------------------------------------------------------
(* Properties of the feed links and the partition files *)

\* The partition file that the link of a feed item points into: the text
\* between "/monthly/" and "#pr-", with the extension of the pages.
LinkedFile(link) == SubSeq(link, 3, 9) \o <<".", "m", "d">>

\* The number after "#pr-" in the link of a feed item.
LinkedNumber(link) == ParseInt(SubSeq(link, 11, Len(link)))

\* C27: the link of every feed item names the partition file that holds the
\* record's entry block: the file YYYY-MM.md of the link's year-month segment
\* exists and has a heading of the record's number, whatever the merge date
\* of the record and the date of the run that stored it.
C27_LinkNamesContainingFile ==
  Generated =>
    \A i \in 1..Len(FeedDocument.item) :
      LET link == FeedDocument.item[i].link
      IN /\ LinkedFile(link) \in DOMAIN files
         /\ HeadingsOf(files[LinkedFile(link)], LinkedNumber(link)) >= 1

----------------------------------------------------------------------------
(* Properties of the two readings of the clock in a run of main *)

\* C28: in a run of main that stores entries, the partition file that
\* getExistingPRNumbers read for the duplicate filter is the partition file
\* that updateMonthlyFile wrote the entries to, although the loop over the
\* records runs between the two.
C28_FilterAndWriteSameFile ==
  (run.pc = "done" /\ run.target # <<>>) => run.target = run.filtered

----------------------------------------------------------------------------
(* Properties of the two heading patterns *)

\* The identifiers of the headings that the pattern of extractPRsFromMarkdown
\* matches in a text.
RecognisedNumbers(content) ==
  LET matches == EntryMatches(content, 1)
  IN {ParseInt(SubSeq(content, matches[k] + 1, HeadingAt(content, matches[k]) - 1)) :
        k \in 1..Len(matches)}

\* C29: on a partition file that updateMonthlyFile built from entries of
\* formatPREntry, the identifiers that getExistingPRNumbers returns are the
\* identifiers of the headings that extractPRsFromMarkdown recognises.
C29_GuardAgreesWithExtractor ==
  (call.op = "getExistingPRNumbers" /\ call.args # <<>>) =>
    call.result = RecognisedNumbers(files[getMonthlyFilename(call.date)])

----------------------------------------------------------------------------
(* Properties of the calls of the loop of main *)

\* The numbers of the first n records of a list.
NumbersUpTo(list, n) == [k \in 1..n |-> list[k].number]

\* C30: in a run of main the details are requested and the summarizer is
\* called only for fetched records whose number was not in the set that
\* getExistingPRNumbers returned; the details are requested once for each
\* record the loop has reached, in the order of the loop, and summarizePR is
\* called once for each of them whose details arrived, so that no record is
\* summarized twice and a call begins only when the loop has reached its
\* record.
C30_CallsOnlyForNewRecords ==
  LET reached == NumbersUpTo(run.newPRs, run.i)
      hasDetails(n) == n \in run.detailed
  IN /\ \A k \in 1..Len(run.summaryCalls) :
          /\ run.summaryCalls[k] \notin run.existingPRs
          /\ \E j \in 1..Len(run.prs) : run.prs[j].number = run.summaryCalls[k]
          /\ \A l \in 1..Len(run.summaryCalls) : run.summaryCalls[l] = run.summaryCalls[k] => l = k
     /\ \A k \in 1..Len(run.detailCalls) :
          /\ run.detailCalls[k] \notin run.existingPRs
          /\ \E j \in 1..Len(run.prs) : run.prs[j].number = run.detailCalls[k]
     /\ run.detailCalls = reached
     /\ run.summaryCalls = SelectSeq(reached, hasDetails)
     /\ run.pc = "summary" => run.summaryCalls[Len(run.summaryCalls)] = run.newPRs[run.i].number

\* C30 witness: a finished run fetched a record that the month's file
\* already held and a new one, and called the summarizer for the new one
\* only.
C30_Witness ==
  /\ run.pc = "done"
  /\ Len(run.prs) = 2
  /\ \E j \in 1..2 : run.prs[j].number \in run.existingPRs
  /\ Len(run.summaryCalls) = 1
  /\ run.summaryCalls[1] \notin run.existingPRs
  /\ run.target # <<>>

====
